---- MODULE Spec2Model ----
(***************************************************************************)
(* Model of the streaming question-answering pipeline of personal_kb:      *)
(* the /query event generator (apps/api/routers/search.py), the            *)
(* RAGPipeline.stream_query generator, the vector retrieval service with   *)
(* its rerank chain, the hybrid search fusion, the gRPC adapter, the       *)
(* events and history writes of the table route, and the consumer of the   *)
(* event stream.                                                           *)
(*                                                                         *)
(* Conventions.                                                            *)
(*  - A text is a sequence of pieces (strings); concatenation is \o and    *)
(*    the empty text is <<>>.                                              *)
(*  - An Optional value is <<>> (None) or <<v>>.                           *)
(*  - Relevance scores are in tenths (0.4 is 4); weights are in tenths and *)
(*    hybrid scores in hundredths.                                         *)
(*  - A generator is a process whose position is pc; one resumption by     *)
(*    the consumer (next()) runs the code up to the next yield.  The first *)
(*    resumption is split at the calls to the vector index, the            *)
(*    cross-encoder and the language model, which are the places where     *)
(*    the environment chooses an outcome.                                  *)
(***************************************************************************)
EXTENDS Integers, Sequences, FiniteSets, TLC

(* ------------------------------ bounds -------------------------------- *)
\* number of chunks the vector index holds
MaxDocs == 3
\* longest token stream the language model produces for one answer
MaxTokens == 2

(* --------------------------- program constants ------------------------ *)
\* rag_pipeline.py:205  strict_threshold = 0.4 (tenths)
strict_threshold == 4
\* retrieval.py:126  default score of a chunk whose scoring call failed (5.0)
DefaultLlmScore == 5
\* services.py:87-91  VectorRetrievalService(vectordb, llm=llm, enable_rerank=True)
enable_rerank == TRUE
llm_configured == TRUE
\* retrieval.py:21  score_threshold: Optional[float] = None
score_threshold == <<>>

NoContentAnswer == <<"no relevant content">>
QueryFailedPrefix == <<"query failed: ">>
EscapedQuotes == {"\\\"", "\\'"}

(* ------------------------------ helpers ------------------------------- *)
Max(a, b) == IF a >= b THEN a ELSE b
Min(a, b) == IF a <= b THEN a ELSE b

\* python s[:n] for n >= 0
Take(s, n) == SubSeq(s, 1, Min(n, Len(s)))

\* "".join(parts)
RECURSIVE Join(_)
Join(parts) == IF parts = <<>> THEN <<>> ELSE Head(parts) \o Join(Tail(parts))

\* list insertion that keeps a list sorted by descending key, equal keys in
\* arrival order: the element goes behind every element whose key is >= its own
RECURSIVE InsertDesc(_, _, _)
InsertDesc(sorted, e, key) ==
    IF sorted = <<>> THEN <<e>>
    ELSE IF Head(sorted)[key] >= e[key]
         THEN <<Head(sorted)>> \o InsertDesc(Tail(sorted), e, key)
         ELSE <<e>> \o sorted

RECURSIVE StableSortDescFrom(_, _, _)
StableSortDescFrom(acc, s, key) ==
    IF s = <<>> THEN acc
    ELSE StableSortDescFrom(InsertDesc(acc, Head(s), key), Tail(s), key)

RECURSIVE Reverse(_)
Reverse(s) == IF s = <<>> THEN <<>> ELSE Reverse(Tail(s)) \o <<Head(s)>>

\* insertion that keeps a list sorted by ascending key, equal keys in arrival order
RECURSIVE InsertAsc(_, _, _)
InsertAsc(sorted, e, key) ==
    IF sorted = <<>> THEN <<e>>
    ELSE IF Head(sorted)[key] <= e[key]
         THEN <<Head(sorted)>> \o InsertAsc(Tail(sorted), e, key)
         ELSE <<e>> \o sorted

RECURSIVE StableSortAscFrom(_, _, _)
StableSortAscFrom(acc, s, key) ==
    IF s = <<>> THEN acc
    ELSE StableSortAscFrom(InsertAsc(acc, Head(s), key), Tail(s), key)

\* a sort written as sorted(...)[::-1]: descending, but equal keys come out in
\* reverse arrival order
SortDescReversed(s, key) == Reverse(StableSortAscFrom(<<>>, s, key))

\* list.sort(key=..., reverse=True): python's sort is stable, also with reverse
SortDesc(s, key) == StableSortDescFrom(<<>>, s, key)

(* ------------------------- the vector index --------------------------- *)
ChunkIds == 1..MaxDocs

\* metadata of the stored chunks: chunks 1 and 2 are two chunks of document 1,
\* chunk 3 carries no doc_id, every further chunk belongs to document 2
DocIdOf(c) == IF c <= 2 THEN <<1>> ELSE IF c = 3 THEN <<>> ELSE <<2>>
ChunkIndexOf(c) == IF c = 3 THEN <<>> ELSE <<(c - 1) % 2>>

Scores == {2, 5}

\* what similarity_search_with_relevance_scores can return for k = n: at most n
\* distinct chunks, best score first
SearchResults(n) ==
    { s \in UNION { [1..m -> [cid : ChunkIds, score : Scores]] : m \in 0..Min(n, MaxDocs) } :
        /\ \A i, j \in 1..Len(s) : i < j => s[i].cid # s[j].cid /\ s[i].score >= s[j].score }

\* str(e) of the exceptions the collaborators raise
ErrMsgs == { <<"no such column ", "\\\"", "amount", "\\\"">> }


(* ------------------------------ requests ------------------------------ *)
KValues == {2}
RerankKValues == {0, 1}

\* QueryRequest (schemas.py) together with the type of the knowledge base of its
\* conversation; use_keyword_search stands for
\* "use_keyword_search or tags or start_date or end_date"
Requests ==
    [kb_type : {"document"}, use_keyword_search : BOOLEAN, k : KValues,
     rerank_k : RerankKValues]
    \cup [kb_type : {"table"}, use_keyword_search : {FALSE}, k : KValues,
          rerank_k : {0}]

\* search.py:92-102: the question of a request is not blank, so the request has
\* a SearchHistory row and search_history_id is set
search_history_id == <<1>>

(* ------------------------------- state -------------------------------- *)
VARIABLES
    useGrpc,          \* USE_GRPC_RAG_SERVICE: rag_pipeline is the gRPC adapter
    reranker,         \* VectorRetrievalService._reranker: <<>> or <<"CrossEncoder">>
    req,              \* the current QueryRequest
    pc,               \* position of generate()
    docs,             \* retrieve(): the list of (chunk, score) in hand
    rr,               \* the current _rerank call
    scored_docs,      \* _rerank: (score, doc) of the chunks scored so far
    results,          \* retrieve_with_metadata(): the returned list
    citations,        \* citations of the request
    answer_chunks,    \* contents received from llm.stream
    final_answer,     \* generate(): final_answer
    final_citations,  \* generate(): final_citations
    events,           \* events the generator has yielded
    history,          \* the SearchHistory row of the request
    llm,              \* calls made to the language model for the request
    raised,           \* str(e) of the exception retrieval, fusion or generation raised
    consumer,         \* the reader of the event stream: "reading" or "stopped"
    lpc,              \* position of each concurrent call of _rerank_with_bge
    loads,            \* CrossEncoder models constructed since the process started
    arg,              \* arguments of the function under study
    ret               \* what it returned: <<>> before the call, <<value>> after it

vars == <<useGrpc, reranker, req, pc, docs, rr, scored_docs, results, citations,
          answer_chunks, final_answer, final_citations, events, history, llm,
          raised, consumer, lpc, loads, arg, ret>>

\* the state of one request in generate()
requestVars == <<useGrpc, req, pc, docs, rr, scored_docs, results, citations,
                 answer_chunks, final_answer, final_citations, events, history, llm,
                 raised, consumer>>
\* the state of the concurrent calls of _rerank_with_bge
loadVars == <<lpc, loads>>
\* the state of a function call studied on its own
callVars == <<arg, ret>>

\* threads of the worker pool that serve requests at the same time
MaxThreads == 3
Threads == 1..MaxThreads

\* the current call of _rerank: whether it runs or has returned, its top_k, how
\* the cross-encoder strategy ended, and the scoring calls that gave a score or failed
IdleRerank == [status |-> "idle", top_k |-> 0, bge |-> "none", llm_ok |-> 0, llm_failed |-> 0]
NoLlmCalls == [rerank_calls |-> 0, gen_calls |-> 0]
EmptyHistory == [answer |-> <<>>, citations |-> <<>>, sources_count |-> <<>>, writes |-> 0]

\* state of a request at the entry of generate()
FreshRequest(r) ==
    /\ req' = r
    /\ pc' = "start"
    /\ docs' = <<>>
    /\ rr' = IdleRerank
    /\ scored_docs' = <<>>
    /\ results' = <<>>
    /\ citations' = <<>>
    /\ answer_chunks' = <<>>
    /\ final_answer' = <<>>
    /\ final_citations' = <<>>
    /\ events' = <<>>
    /\ history' = EmptyHistory
    /\ llm' = NoLlmCalls
    /\ raised' = <<>>
    /\ consumer' = "reading"

Init ==
    /\ useGrpc \in BOOLEAN
    /\ reranker = <<>>
    /\ req \in Requests
    /\ pc = "start"
    /\ docs = <<>>
    /\ rr = IdleRerank
    /\ scored_docs = <<>>
    /\ results = <<>>
    /\ citations = <<>>
    /\ answer_chunks = <<>>
    /\ final_answer = <<>>
    /\ final_citations = <<>>
    /\ events = <<>>
    /\ history = EmptyHistory
    /\ llm = NoLlmCalls
    /\ raised = <<>>
    /\ consumer = "reading"
    /\ lpc = [t \in Threads |-> "idle"]
    /\ loads = 0
    /\ arg = <<>>
    /\ ret = <<>>

(* ------------------------------ events -------------------------------- *)
CitationsEvent(c) == [type |-> "citations", citations |-> c, chunk |-> <<>>, answer |-> <<>>]
ChunkEvent(t) == [type |-> "chunk", citations |-> <<>>, chunk |-> t, answer |-> <<>>]
FinalEvent(a, c) == [type |-> "final", citations |-> c, chunk |-> <<>>, answer |-> a]
\* rag_adapter.py:196-197  {"type": "error", "message": ...}
ErrorEvent(m) == [type |-> "error", citations |-> <<>>, chunk |-> <<>>, answer |-> m]

\* error_message.replace('\\"', '').replace("\\'", '')
Sanitize(msg) ==
    IF \E i \in 1..Len(msg) : msg[i] \in EscapedQuotes
    THEN SelectSeq(msg, LAMBDA piece : piece \notin EscapedQuotes)
    ELSE msg

\* which route a request takes (search.py:121, 731)
TableRoute == req.kb_type = "table"
Hybrid == ~TableRoute /\ req.use_keyword_search
\* the pipeline of the request runs behind the gRPC adapter
Remote == useGrpc /\ ~TableRoute /\ ~Hybrid

\* arguments of retrieve_with_metadata: search.py:810-815 and
\* hybrid_search.py:168-173 (k = k * 2, rerank_k = k)
RetrieveK == IF Hybrid THEN req.k * 2 ELSE req.k
RetrieveRerankK == IF Hybrid THEN req.k ELSE req.rerank_k

\* retrieval.py:62-66
InitialK(k, rerank_k) ==
    IF enable_rerank /\ rerank_k # 0 THEN Max(k, rerank_k * 3) ELSE k

\* retrieval.py:76-85: chunks below score_threshold are dropped
ScoreFilter(ds) ==
    IF score_threshold = <<>> THEN ds
    ELSE SelectSeq(ds, LAMBDA d : d.score >= score_threshold[1])

\* retrieval.py:88
NeedsRerank(ds, rerank_k) == enable_rerank /\ rerank_k # 0 /\ Len(ds) > rerank_k

\* retrieval.py:91
Truncate(ds, k, rerank_k) == IF rerank_k = 0 THEN Take(ds, k) ELSE Take(ds, rerank_k)

\* enumerate(docs) without start=1
WithMetadataZeroBased(ds) ==
    [i \in 1..Len(ds) |->
        [index |-> i - 1, src |-> <<"chunk", ds[i].cid>>, doc_id |-> DocIdOf(ds[i].cid),
         chunk_index |-> ChunkIndexOf(ds[i].cid), score |-> <<ds[i].score>>]]

\* retrieval.py:209-225
WithMetadata(ds) ==
    [i \in 1..Len(ds) |->
        [index |-> i, src |-> <<"chunk", ds[i].cid>>, doc_id |-> DocIdOf(ds[i].cid),
         chunk_index |-> ChunkIndexOf(ds[i].cid), score |-> <<ds[i].score>>]]

(* ------------------------------ citations ------------------------------ *)
\* "segment N": chunk_index + 1 when there is a chunk_index
ChunkPosition(chunk_index) == IF chunk_index = <<>> THEN <<>> ELSE <<chunk_index[1] + 1>>

\* rag_pipeline.py:207-239: the citation list, in the order and with the index
\* of the retrieved list
RagCitations(res) ==
    [i \in 1..Len(res) |->
        [index |-> res[i].index, src |-> res[i].src, doc_id |-> res[i].doc_id,
         chunk_index |-> res[i].chunk_index,
         chunk_position |-> ChunkPosition(res[i].chunk_index), score |-> res[i].score]]

\* grpc_server.py:73-85 and rag_adapter.py:161-173: through the protobuf message
\* an unset or zero field comes back as None, and the score is not carried
GrpcCitations(cs) ==
    [i \in 1..Len(cs) |->
        [index |-> cs[i].index, src |-> cs[i].src, doc_id |-> cs[i].doc_id,
         chunk_index |-> IF cs[i].chunk_index = <<0>> THEN <<>> ELSE cs[i].chunk_index,
         chunk_position |-> cs[i].chunk_position, score |-> <<>>]]

\* search.py:818-828: Citation(index, source, title, snippet, doc_id, page).dict()
ApiCitations(cs) ==
    [i \in 1..Len(cs) |->
        [index |-> cs[i].index, src |-> cs[i].src, doc_id |-> cs[i].doc_id,
         chunk_index |-> <<>>, chunk_position |-> <<>>]]

\* citations of a pipeline result as generate() receives and forwards them
Forwarded(cs) == ApiCitations(IF Remote THEN GrpcCitations(cs) ELSE cs)

(* ------------------- generate(): events, exceptions, the end ----------- *)
Emit(e) == events' = Append(events, e)

\* a loop over pipeline results that has no branch for the citations result
ForwardedTypesNoCitations == {"chunk", "final"}

\* types of pipeline results the loop of generate() has a branch for
\* (search.py:817, 830, 832)
ForwardedTypes == {"citations", "chunk", "final"}

\* search.py:816-846: one pipeline result in the loop of generate().  A result of
\* a forwarded type is yielded with its citations converted, the final result
\* also sets final_answer and final_citations; any other result is passed over.
OnResult(e) ==
    IF e.type \in ForwardedTypes
    THEN /\ Emit([e EXCEPT !.citations = Forwarded(@)])
         /\ final_answer' = IF e.type = "final" THEN e.answer ELSE final_answer
         /\ final_citations' = IF e.type = "final" THEN Forwarded(e.citations)
                               ELSE final_citations
    ELSE UNCHANGED <<events, final_answer, final_citations>>

\* the history is written although final_answer is empty
SaveHistoryUnguarded(answer, cits, saved) ==
    history' = IF search_history_id # <<>> /\ saved
               THEN [answer |-> answer, citations |-> cits,
                     sources_count |-> <<Len(cits)>>, writes |-> history.writes + 1]
               ELSE history

\* search.py:867-885: the code behind the try statement.  The answer is saved
\* when there is a history row and final_answer is not empty; a failure of the
\* database session is logged and swallowed (saved = FALSE)
SaveHistory(answer, cits, saved) ==
    history' = IF search_history_id # <<>> /\ answer # <<>> /\ saved
               THEN [answer |-> answer, citations |-> cits,
                     sources_count |-> <<Len(cits)>>, writes |-> history.writes + 1]
               ELSE history

\* search.py:847-865: except Exception -> one final event "query failed: ..."
\* with no citations; final_answer and final_citations keep their values
HandleException(msg) ==
    /\ Emit(FinalEvent(QueryFailedPrefix \o Sanitize(msg), <<>>))
    /\ pc' = "error_sent"
    /\ UNCHANGED <<final_answer, final_citations, history>>

\* An exception inside RAGPipeline.stream_query when the pipeline runs behind the
\* gRPC adapter: the servicer turns it into an error chunk (grpc_server.py:117-121),
\* the adapter yields {"type": "error"} (rag_adapter.py:196-197) and the stream
\* ends.  The loop of generate() takes the result like any other; when it has
\* yielded nothing for it, generate() leaves the loop and runs to its end.
RemoteFailure(msg) ==
    /\ OnResult(ErrorEvent(QueryFailedPrefix \o msg))
    /\ IF "error" \in ForwardedTypes
       THEN /\ pc' = "error_sent"
            /\ UNCHANGED history
       ELSE /\ \E saved \in BOOLEAN : SaveHistory(final_answer, final_citations, saved)
            /\ pc' = "done"

\* an exception raised by retrieval, fusion or generation
Raise(msg) ==
    /\ raised' = <<msg>>
    /\ IF Remote THEN RemoteFailure(msg) ELSE HandleException(msg)

(* ----------------------------- retrieve() ------------------------------ *)
\* retrieve() hands its list back: retrieval.py:91 and retrieve_with_metadata
ReturnDocs(ds) ==
    /\ results' = WithMetadata(Truncate(ds, RetrieveK, RetrieveRerankK))
    /\ docs' = <<>>
    /\ scored_docs' = <<>>
    /\ pc' = "retrieved"

\* retrieval.py:59-91 up to the call of _rerank: the vector index answers or fails
Retrieve ==
    /\ UNCHANGED <<loadVars, callVars>>
    /\ pc = "start"
    /\ ~TableRoute
    /\ \/ /\ UNCHANGED <<events, final_answer, final_citations, history, raised>>
          /\ \E found \in SearchResults(InitialK(RetrieveK, RetrieveRerankK)) :
                LET ds == ScoreFilter(found) IN
                IF NeedsRerank(ds, RetrieveRerankK)
                THEN /\ docs' = ds
                     /\ rr' = [IdleRerank EXCEPT !.status = "running",
                                                 !.top_k = RetrieveRerankK]
                     /\ pc' = "rerank_bge"
                     /\ UNCHANGED <<scored_docs, results>>
                ELSE /\ ReturnDocs(ds)
                     /\ UNCHANGED rr
       \/ /\ \E msg \in ErrMsgs : Raise(msg)
          /\ UNCHANGED <<docs, rr, scored_docs, results>>
    /\ UNCHANGED <<useGrpc, reranker, req, citations, answer_chunks, llm, consumer>>

BgeScores == {1, 2}

RerankReturnThenScore(out, bge) ==
    /\ rr' = [rr EXCEPT !.bge = bge]
    /\ scored_docs' = <<>>
    /\ pc' = "rerank_llm"
    /\ UNCHANGED <<docs, results>>
\* retrieval.py:97-99: _rerank returns the list of the strategy that succeeded
RerankReturn(out, bge) ==
    /\ rr' = [rr EXCEPT !.status = "returned", !.bge = bge]
    /\ ReturnDocs(out)

\* retrieval.py:97-103: _rerank_with_bge returned None
BgeFailed(why) ==
    IF ~llm_configured
    THEN RerankReturn(Take(docs, rr.top_k), why)
    ELSE /\ rr' = [rr EXCEPT !.bge = why]
         /\ scored_docs' = <<>>
         /\ pc' = "rerank_llm"
         /\ UNCHANGED <<docs, results>>

\* retrieval.py:184-189: scores from predict, sort(reverse=True), the first top_k
BgeRanked(ds, scores, top_k) ==
    LET scored == [i \in 1..Len(ds) |-> [score |-> scores[i], doc |-> ds[i]]]
        ranked == SortDesc(scored, "score")
    IN  [i \in 1..Min(top_k, Len(ds)) |-> ranked[i].doc]

\* retrieval.py:134-192  _rerank_with_bge: import, lazy load (preferred device,
\* then cpu), predict
RerankBge ==
    /\ UNCHANGED <<loadVars, callVars>>
    /\ pc = "rerank_bge"
    /\ \/ \* sentence_transformers / torch cannot be imported
          /\ BgeFailed("import_failed")
          /\ UNCHANGED reranker
       \/ \* the handle is unset and the model loads on neither device
          /\ reranker = <<>>
          /\ BgeFailed("load_failed")
          /\ UNCHANGED reranker
       \/ \* the handle is set, or the model loads (first or second attempt)
          /\ reranker' = <<"CrossEncoder">>
          /\ \/ BgeFailed("predict_failed")
             \/ \E scores \in [1..Len(docs) -> BgeScores] :
                    RerankReturn(BgeRanked(docs, scores, rr.top_k), "ok")
    /\ UNCHANGED <<useGrpc, req, citations, answer_chunks, final_answer,
                   final_citations, events, history, llm, raised, consumer>>

\* what one scoring call gives: the call raises or the reply is no number
\* (ok = FALSE), or a score
LlmOutcomes == { [ok |-> FALSE, score |-> 0], [ok |-> TRUE, score |-> 3],
                 [ok |-> TRUE, score |-> 8] }

\* retrieval.py:120-126
ScoreOf(outcome) == IF outcome.ok THEN outcome.score ELSE DefaultLlmScore

\* retrieval.py:129-132
LlmRanked(scored, top_k) ==
    LET ranked == SortDesc(scored, "score")
    IN  [i \in 1..Min(top_k, Len(scored)) |-> ranked[i].doc]

\* retrieval.py:109-132: one turn of the scoring loop; the last turn sorts and
\* returns
LlmScoreOne ==
    /\ UNCHANGED <<loadVars, callVars>>
    /\ pc = "rerank_llm"
    /\ Len(scored_docs) < Len(docs)
    /\ \E outcome \in LlmOutcomes :
        LET doc == docs[Len(scored_docs) + 1]
            scored == Append(scored_docs, [score |-> ScoreOf(outcome), doc |-> doc])
            counted == [rr EXCEPT !.llm_ok = @ + (IF outcome.ok THEN 1 ELSE 0),
                                  !.llm_failed = @ + (IF outcome.ok THEN 0 ELSE 1)]
        IN  IF Len(scored) < Len(docs)
            THEN /\ scored_docs' = scored
                 /\ rr' = counted
                 /\ UNCHANGED <<docs, results, pc>>
            ELSE /\ rr' = [counted EXCEPT !.status = "returned"]
                 /\ ReturnDocs(LlmRanked(scored, rr.top_k))
    /\ llm' = [llm EXCEPT !.rerank_calls = @ + 1]
    /\ UNCHANGED <<useGrpc, reranker, req, citations, answer_chunks, final_answer,
                   final_citations, events, history, raised, consumer>>

(* ----------------------- RAGPipeline.stream_query ---------------------- *)
\* rag_pipeline.py:203-204
MaxScore(res) ==
    IF res = <<>> THEN 0
    ELSE CHOOSE m \in { res[i].score[1] : i \in 1..Len(res) } :
            \A i \in 1..Len(res) : res[i].score[1] <= m

\* rag_pipeline.py:244
Gated(res) == MaxScore(res) < strict_threshold \/ res = <<>>

\* rag_pipeline.py:203-260: the citation list is built, the gate is taken or
\* not, and the first result is yielded
BuildContext ==
    /\ UNCHANGED <<loadVars, callVars>>
    /\ pc = "retrieved"
    /\ ~Hybrid
    /\ IF Gated(results)
       THEN /\ citations' = <<>>
            /\ OnResult(CitationsEvent(<<>>))
            /\ pc' = "gated"
       ELSE /\ citations' = RagCitations(results)
            /\ OnResult(CitationsEvent(RagCitations(results)))
            /\ pc' = "streaming"
    /\ rr' = IdleRerank
    /\ UNCHANGED <<useGrpc, reranker, req, docs, scored_docs, results,
                   answer_chunks, history, llm, raised, consumer>>

\* rag_pipeline.py:249-254 and search.py:832-846
GatedFinal ==
    /\ UNCHANGED <<loadVars, callVars>>
    /\ pc = "gated"
    /\ OnResult(FinalEvent(NoContentAnswer, <<>>))
    /\ pc' = "final_sent"
    /\ UNCHANGED <<useGrpc, reranker, req, docs, rr, scored_docs, results, citations,
                   answer_chunks, history, llm, raised, consumer>>

(* ------------------------ hybrid_search (fusion) ----------------------- *)
\* hybrid_search.py:146-147 (tenths)
keyword_weight == 3
vector_weight == 7

KwDocIds == {1, 2}
KwScores == {1, 6}

\* what keyword_search can return for limit = n: rows of distinct documents,
\* sorted by score (hybrid_search.py:89-112)
KeywordResults(n) ==
    { s \in UNION { [1..m -> [doc_id : KwDocIds, score : KwScores]] :
                        m \in 0..Min(n, Cardinality(KwDocIds)) } :
        \A i, j \in 1..Len(s) : i < j => s[i].doc_id # s[j].doc_id /\ s[i].score >= s[j].score }

\* a list in place of the dict: every entry is appended
DictPutAppend(d, entry) == Append(d, entry)

\* setdefault in place of the assignment: a known key keeps its first entry
DictPutFirst(d, entry) ==
    IF \E i \in 1..Len(d) : d[i].doc_id = entry.doc_id THEN d ELSE Append(d, entry)

\* doc_scores[key] = entry: a new key goes to the end, a known key keeps its place
DictPut(d, entry) ==
    IF \E i \in 1..Len(d) : d[i].doc_id = entry.doc_id
    THEN [i \in 1..Len(d) |-> IF d[i].doc_id = entry.doc_id THEN entry ELSE d[i]]
    ELSE Append(d, entry)

\* hybrid_search.py:190-197
RECURSIVE FuseVector(_, _)
FuseVector(d, vres) ==
    IF vres = <<>> THEN d
    ELSE LET r == Head(vres) IN
         FuseVector(
            IF r.doc_id # <<>>
            THEN DictPut(d, [doc_id |-> r.doc_id, vector_score |-> 10 - (r.index - 1),
                             keyword_score |-> 0,
                             doc_info |-> [src |-> r.src, doc_id |-> r.doc_id,
                                           chunk_index |-> r.chunk_index]])
            ELSE d,
            Tail(vres))

\* hybrid_search.py:200-210: keyword_score = score / 10.0, in tenths the raw score
RECURSIVE FuseKeyword(_, _)
FuseKeyword(d, kres) ==
    IF kres = <<>> THEN d
    ELSE LET r == Head(kres)
             key == <<r.doc_id>>
         IN  FuseKeyword(
                IF \E i \in 1..Len(d) : d[i].doc_id = key
                THEN [i \in 1..Len(d) |->
                        IF d[i].doc_id = key THEN [d[i] EXCEPT !.keyword_score = r.score]
                        ELSE d[i]]
                ELSE Append(d, [doc_id |-> key, vector_score |-> 0, keyword_score |-> r.score,
                                doc_info |-> [src |-> <<"doc", r.doc_id>>, doc_id |-> key,
                                              chunk_index |-> <<>>]]),
                Tail(kres))

\* the two weights exchanged
HybridScoreSwapped(vs, ks) == vs * keyword_weight + ks * vector_weight

\* hybrid_search.py:215-218 (hundredths)
HybridScore(vs, ks) == vs * vector_weight + ks * keyword_weight

\* hybrid_search.py:213-230: hybrid score, sort, the first k, re-indexed from 1
HybridResults(vres, kres, k) ==
    LET d == FuseKeyword(FuseVector(<<>>, vres), kres)
        scored == [i \in 1..Len(d) |->
                     [src |-> d[i].doc_info.src, doc_id |-> d[i].doc_id,
                      chunk_index |-> d[i].doc_info.chunk_index,
                      hybrid_score |-> HybridScore(d[i].vector_score,
                                                   d[i].keyword_score)]]
        ranked == SortDesc(scored, "hybrid_score")
    IN  [i \in 1..Min(k, Len(ranked)) |->
            [index |-> i, src |-> ranked[i].src, doc_id |-> ranked[i].doc_id,
             chunk_index |-> ranked[i].chunk_index,
             hybrid_score |-> ranked[i].hybrid_score]]

\* utils/citations.py:17-44 (search.py:745-763)
SearchCitations(res) ==
    [i \in 1..Len(res) |->
        [index |-> res[i].index, src |-> res[i].src, doc_id |-> res[i].doc_id,
         chunk_index |-> res[i].chunk_index,
         chunk_position |-> ChunkPosition(res[i].chunk_index)]]

\* search.py:733-770: the keyword path, the fusion, the citations event
Fuse ==
    /\ UNCHANGED <<loadVars, callVars>>
    /\ pc = "retrieved"
    /\ Hybrid
    /\ \/ /\ UNCHANGED <<final_answer, final_citations, history, raised>>
          /\ \E kres \in KeywordResults(req.k * 2) :
                LET found == HybridResults(results, kres, req.k) IN
                /\ results' = found
                /\ citations' = SearchCitations(found)
                /\ Emit(CitationsEvent(SearchCitations(found)))
                /\ pc' = "streaming"
       \/ /\ \E msg \in ErrMsgs : Raise(msg)
          /\ UNCHANGED <<results, citations>>
    /\ rr' = IdleRerank
    /\ UNCHANGED <<useGrpc, reranker, req, docs, scored_docs, answer_chunks, llm,
                   consumer>>

(* ----------------------------- generation ------------------------------ *)
\* contents of the chunks llm.stream delivers; <<>> is a chunk without content
Contents == { <<"a">>, <<"b">> }

\* a loop that yields every chunk of the stream
YieldsAlways(content) == TRUE

\* rag_pipeline.py:271, search.py:800: "if hasattr(chunk, 'content') and chunk.content"
Yields(content) == content # <<>>

\* rag_pipeline.py:270-277 with search.py:830-831 (a pipeline result), or
\* search.py:799-803 (hybrid route): a chunk with content is appended to
\* answer_chunks and yielded
YieldChunk(content) ==
    /\ Len(answer_chunks) < MaxTokens
    /\ answer_chunks' = Append(answer_chunks, content)
    /\ IF Hybrid
       THEN /\ Emit(ChunkEvent(content))
            /\ UNCHANGED <<final_answer, final_citations>>
       ELSE OnResult(ChunkEvent(content))
    /\ pc' = "streaming"
    /\ UNCHANGED <<history, raised>>

\* rag_pipeline.py:280-285 with search.py:832-846 (a pipeline result), or
\* search.py:805-807 (hybrid route): the answer is the join of answer_chunks
YieldFinal ==
    /\ IF Hybrid
       THEN /\ final_answer' = Join(answer_chunks)
            /\ final_citations' = citations
            /\ Emit(FinalEvent(Join(answer_chunks), citations))
       ELSE OnResult(FinalEvent(Join(answer_chunks), citations))
    /\ pc' = "final_sent"
    /\ UNCHANGED <<answer_chunks, history, raised>>

\* One resumption of the loop over llm.stream.  The stream may first deliver a
\* chunk without content (empty_first): the loop passes it over and takes the
\* next item within the same resumption, which is what `rest` does.
Resume(empty_first, rest) ==
    /\ IF empty_first /\ Yields(<<>>) THEN YieldChunk(<<>>) ELSE rest
    /\ llm' = [llm EXCEPT !.gen_calls = 1]
    /\ UNCHANGED <<useGrpc, reranker, req, docs, rr, scored_docs, results, citations,
                   consumer>>

\* the stream delivers a chunk with content
StreamChunk ==
    /\ UNCHANGED <<loadVars, callVars>>
    /\ pc = "streaming"
    /\ \E empty_first \in BOOLEAN, content \in Contents :
        Resume(empty_first, IF Yields(content) THEN YieldChunk(content) ELSE FALSE)

\* the stream is exhausted
StreamEnd ==
    /\ UNCHANGED <<loadVars, callVars>>
    /\ pc = "streaming"
    /\ \E empty_first \in BOOLEAN : Resume(empty_first, YieldFinal)

\* the model's stream raises (before the first chunk or between two chunks)
StreamFails ==
    /\ UNCHANGED <<loadVars, callVars>>
    /\ pc = "streaming"
    /\ \E empty_first \in BOOLEAN :
        Resume(empty_first,
               /\ \E msg \in ErrMsgs : Raise(msg)
               /\ UNCHANGED answer_chunks)

\* rag_adapter.py:159: the call to the remote service itself fails (RpcError),
\* an exception on the side of generate()
TransportFailure ==
    /\ UNCHANGED <<loadVars, callVars>>
    /\ Remote
    /\ pc \in {"start", "gated", "streaming"}
    /\ \E msg \in ErrMsgs : raised' = <<msg>> /\ HandleException(msg)
    /\ UNCHANGED <<useGrpc, reranker, req, docs, rr, scored_docs, results, citations,
                   answer_chunks, llm, consumer>>

\* search.py:867-885: resumed behind its last yield, generate() saves the answer
\* and returns
Finish ==
    /\ UNCHANGED <<loadVars, callVars>>
    /\ pc \in {"final_sent", "error_sent"}
    /\ \E saved \in BOOLEAN : SaveHistory(final_answer, final_citations, saved)
    /\ pc' = "done"
    /\ UNCHANGED <<useGrpc, reranker, req, docs, rr, scored_docs, results, citations,
                   answer_chunks, final_answer, final_citations, events, llm, raised,
                   consumer>>

(* --------------------------- the table route --------------------------- *)
\* number of data sources of a table knowledge base that hold matching rows
MaxSources == 2

AnalysingNote == <<"analysing the table data">>
ResultsSummary == <<"summary of the query results">>
NoMatchHistoryAnswer == <<"no matching data">>
PlanFailedPrefix == <<"analysis failed: ">>

\* the ways the table route ends before a query runs (search.py:133-136,
\* 184-187, 253-261), and the end without a matching row (search.py:612-625)
EarlyExits == {"t_no_sources", "t_no_schemas", "t_plan_failed"}
EarlyNote(exit) == <<"note: ", exit>>
EarlyAnswer(exit) ==
    IF exit = "t_plan_failed" THEN PlanFailedPrefix \o CHOOSE m \in ErrMsgs : TRUE
    ELSE <<"answer: ", exit>>

\* search.py:698-710: one citation per query result, index from 1
TableCitations(res) ==
    [i \in 1..Len(res) |->
        [index |-> i, src |-> res[i].src, doc_id |-> <<>>,
         chunk_index |-> <<>>, chunk_position |-> <<>>]]

\* search.py:121-124: the first event of a table request
TableStart ==
    /\ UNCHANGED <<loadVars, callVars>>
    /\ pc = "start"
    /\ TableRoute
    /\ Emit(ChunkEvent(AnalysingNote))
    /\ pc' = "t_analysing"
    /\ UNCHANGED <<useGrpc, reranker, req, docs, rr, scored_docs, results, citations,
                   answer_chunks, final_answer, final_citations, history, llm, raised,
                   consumer>>

\* search.py:126-292: data sources, schemas and the query plan.  The route ends
\* early with a note, goes on to the queries, or an exception reaches the
\* handler of generate()
TableAnalyse ==
    /\ UNCHANGED <<loadVars, callVars>>
    /\ pc = "t_analysing"
    /\ \/ /\ \E exit \in EarlyExits : Emit(ChunkEvent(EarlyNote(exit))) /\ pc' = exit
          /\ UNCHANGED <<final_answer, final_citations, history, raised>>
       \/ /\ pc' = "t_query"
          /\ UNCHANGED <<events, final_answer, final_citations, history, raised>>
       \/ \E msg \in ErrMsgs : Raise(msg)
    /\ UNCHANGED <<useGrpc, reranker, req, docs, rr, scored_docs, results, citations,
                   answer_chunks, llm, consumer>>

\* search.py:294-625: the queries over the data sources; a failing data source
\* is passed over (search.py:599).  Without a result the note is yielded.
TableQuery ==
    /\ UNCHANGED <<loadVars, callVars>>
    /\ pc = "t_query"
    /\ \E n \in 0..MaxSources :
        /\ results' = [i \in 1..n |->
                         [index |-> i, src |-> <<"data_source", i>>, doc_id |-> <<>>,
                          chunk_index |-> <<>>, score |-> <<>>]]
        /\ IF n = 0
           THEN /\ Emit(ChunkEvent(EarlyNote("t_no_results")))
                /\ pc' = "t_no_results"
           ELSE /\ pc' = "t_narrate"
                /\ UNCHANGED events
    /\ UNCHANGED <<useGrpc, reranker, req, docs, rr, scored_docs, citations,
                   answer_chunks, final_answer, final_citations, history, llm, raised,
                   consumer>>

\* the second event of a route that ends without an answer from the data
TableEarlyFinal ==
    /\ UNCHANGED <<loadVars, callVars>>
    /\ pc \in EarlyExits \cup {"t_no_results"}
    /\ Emit(FinalEvent(EarlyAnswer(pc), <<>>))
    /\ pc' = IF pc = "t_no_results" THEN "t_final_no_results" ELSE "t_final_early"
    /\ UNCHANGED <<useGrpc, reranker, req, docs, rr, scored_docs, results, citations,
                   answer_chunks, final_answer, final_citations, history, llm, raised,
                   consumer>>

\* search.py:677-683: the narration streams a chunk with content
TableStreamChunk ==
    /\ UNCHANGED <<loadVars, callVars>>
    /\ pc \in {"t_narrate", "t_narrating"}
    /\ Len(answer_chunks) < MaxTokens
    /\ \E content \in Contents :
        /\ Yields(content)
        /\ answer_chunks' = Append(answer_chunks, content)
        /\ Emit(ChunkEvent(content))
    /\ pc' = "t_narrating"
    /\ llm' = [llm EXCEPT !.gen_calls = 1]
    /\ UNCHANGED <<useGrpc, reranker, req, docs, rr, scored_docs, results, citations,
                   final_answer, final_citations, history, raised, consumer>>

\* search.py:685-689: the narration raises; the summary of the results replaces
\* what was streamed and is yielded as one chunk
FallbackChunksKeep(chunks) == Append(chunks, ResultsSummary)
\* search.py:688 answer_chunks = [results_summary]
FallbackChunks(chunks) == <<ResultsSummary>>

TableStreamFails ==
    /\ UNCHANGED <<loadVars, callVars>>
    /\ pc \in {"t_narrate", "t_narrating"}
    /\ answer_chunks' = FallbackChunks(answer_chunks)
    /\ Emit(ChunkEvent(ResultsSummary))
    /\ pc' = "t_narrated"
    /\ llm' = [llm EXCEPT !.gen_calls = 1]
    /\ UNCHANGED <<useGrpc, reranker, req, docs, rr, scored_docs, results, citations,
                   final_answer, final_citations, history, raised, consumer>>

\* search.py:691-712: the stream is exhausted (or the summary was yielded); the
\* answer and the citations are built and the citations event is yielded
TableCitationsEvent ==
    /\ UNCHANGED <<loadVars, callVars>>
    /\ pc \in {"t_narrate", "t_narrating", "t_narrated"}
    /\ final_answer' = IF answer_chunks # <<>> THEN Join(answer_chunks) ELSE ResultsSummary
    /\ citations' = TableCitations(results)
    /\ Emit(CitationsEvent(TableCitations(results)))
    /\ pc' = "t_citations"
    /\ llm' = [llm EXCEPT !.gen_calls = 1]
    /\ UNCHANGED <<useGrpc, reranker, req, docs, rr, scored_docs, results,
                   answer_chunks, final_citations, history, raised, consumer>>

\* search.py:713
TableFinal ==
    /\ UNCHANGED <<loadVars, callVars>>
    /\ pc = "t_citations"
    /\ Emit(FinalEvent(final_answer, citations))
    /\ pc' = "t_final"
    /\ UNCHANGED <<useGrpc, reranker, req, docs, rr, scored_docs, results, citations,
                   answer_chunks, final_answer, final_citations, history, llm, raised,
                   consumer>>

\* search.py:136, 187, 261 (return), 616-625 and 715-727 (the history row, then
\* return): the table route leaves generate() from inside the try statement
TableFinish ==
    /\ UNCHANGED <<loadVars, callVars>>
    /\ pc \in {"t_final_early", "t_final_no_results", "t_final"}
    /\ \E saved \in BOOLEAN :
        history' =
            IF pc = "t_final_early" \/ search_history_id = <<>> \/ ~saved THEN history
            ELSE IF pc = "t_final_no_results"
                 THEN [history EXCEPT !.answer = NoMatchHistoryAnswer, !.writes = @ + 1]
                 ELSE [answer |-> final_answer, citations |-> citations,
                       sources_count |-> <<Len(citations)>>,
                       writes |-> history.writes + 1]
    /\ pc' = "done"
    /\ UNCHANGED <<useGrpc, reranker, req, docs, rr, scored_docs, results, citations,
                   answer_chunks, final_answer, final_citations, events, llm, raised,
                   consumer>>

(* ----------------------------- the consumer ---------------------------- *)
\* positions at which generate() is suspended in a yield
YieldPcs ==
    {"gated", "streaming", "final_sent", "error_sent", "t_analysing", "t_no_results",
     "t_narrating", "t_narrated", "t_citations", "t_final", "t_final_early",
     "t_final_no_results"} \cup EarlyExits

\* a handler written as a bare "except:"
CatchesAll(exc) == TRUE

\* search.py:847 "except Exception": GeneratorExit derives from BaseException
Catches(exc) == exc = "Exception"

\* the consumer stops reading: the generator is closed, GeneratorExit is raised
\* at the yield where it is suspended
Cancel ==
    /\ UNCHANGED <<loadVars, callVars>>
    /\ pc \in YieldPcs
    /\ consumer' = "stopped"
    /\ IF Catches("GeneratorExit")
       THEN HandleException(<<"GeneratorExit">>)
       ELSE /\ pc' = "closed"
            /\ UNCHANGED <<events, final_answer, final_citations, history>>
    /\ UNCHANGED <<useGrpc, reranker, req, docs, rr, scored_docs, results, citations,
                   answer_chunks, llm, raised>>

\* search.py:26-114: the next POST /query; the handle of the retrieval service
\* and the configuration outlive the request
NewRequest ==
    /\ UNCHANGED <<loadVars, callVars>>
    /\ pc \in {"done", "closed"}
    /\ \E r \in Requests : FreshRequest(r)
    /\ UNCHANGED <<useGrpc, reranker>>

\* a step of the request in generate(); no other call is in progress
Next ==
    \/ Retrieve
    \/ RerankBge
    \/ LlmScoreOne
    \/ BuildContext
    \/ GatedFinal
    \/ Fuse
    \/ StreamChunk
    \/ StreamEnd
    \/ StreamFails
    \/ TransportFailure
    \/ Finish
    \/ TableStart
    \/ TableAnalyse
    \/ TableQuery
    \/ TableEarlyFinal
    \/ TableStreamChunk
    \/ TableStreamFails
    \/ TableCitationsEvent
    \/ TableFinal
    \/ TableFinish
    \/ Cancel
    \/ NewRequest

Spec == Init /\ [][Next]_vars

(* ------------- concurrent first calls of _rerank_with_bge -------------- *)
\* the request state of a process in which no request is being followed
QuietRequest ==
    [kb_type |-> "document", use_keyword_search |-> FALSE, k |-> 2, rerank_k |-> 1]
Quiet ==
    /\ useGrpc = FALSE
    /\ req = QuietRequest
    /\ pc = "start"
    /\ docs = <<>>
    /\ rr = IdleRerank
    /\ scored_docs = <<>>
    /\ results = <<>>
    /\ citations = <<>>
    /\ answer_chunks = <<>>
    /\ final_answer = <<>>
    /\ final_citations = <<>>
    /\ events = <<>>
    /\ history = EmptyHistory
    /\ llm = NoLlmCalls
    /\ raised = <<>>
    /\ consumer = "reading"

\* services.py:87-91: one VectorRetrievalService for the process, its handle
\* unset (retrieval.py:27); query_kb is a plain def, so requests are served by
\* the threads of the worker pool
InitLoad ==
    /\ Quiet
    /\ reranker = <<>>
    /\ lpc = [t \in Threads |-> "idle"]
    /\ loads = 0
    /\ arg = <<>>
    /\ ret = <<>>

\* retrieval.py:138-142: the imports
BgeImport(t) ==
    /\ UNCHANGED <<requestVars, callVars>>
    /\ lpc[t] = "idle"
    /\ \E next \in {"imported", "returned_none"} : lpc' = [lpc EXCEPT ![t] = next]
    /\ UNCHANGED <<reranker, loads>>

\* retrieval.py:153: the test "self._reranker is None"
BgeCheck(t) ==
    /\ UNCHANGED <<requestVars, callVars>>
    /\ lpc[t] = "imported"
    /\ lpc' = [lpc EXCEPT ![t] = IF reranker = <<>> THEN "loading" ELSE "ready"]
    /\ UNCHANGED <<reranker, loads>>

\* retrieval.py:155-159: CrossEncoder(...) on the picked device returns and the
\* handle is assigned, or it raises
BgeLoad(t) ==
    /\ UNCHANGED <<requestVars, callVars>>
    /\ lpc[t] = "loading"
    /\ \/ /\ reranker' = <<"CrossEncoder">>
          /\ loads' = loads + 1
          /\ lpc' = [lpc EXCEPT ![t] = "ready"]
       \/ /\ lpc' = [lpc EXCEPT ![t] = "loading_cpu"]
          /\ UNCHANGED <<reranker, loads>>

\* retrieval.py:165-178: the second attempt, on the cpu
BgeLoadCpu(t) ==
    /\ UNCHANGED <<requestVars, callVars>>
    /\ lpc[t] = "loading_cpu"
    /\ \/ /\ reranker' = <<"CrossEncoder">>
          /\ loads' = loads + 1
          /\ lpc' = [lpc EXCEPT ![t] = "ready"]
       \/ /\ lpc' = [lpc EXCEPT ![t] = "returned_none"]
          /\ UNCHANGED <<reranker, loads>>

\* retrieval.py:183-192: predict and sort, or None when that fails
BgePredict(t) ==
    /\ UNCHANGED <<requestVars, callVars>>
    /\ lpc[t] = "ready"
    /\ \E next \in {"returned_list", "returned_none"} : lpc' = [lpc EXCEPT ![t] = next]
    /\ UNCHANGED <<reranker, loads>>

\* the thread serves its next request
BgeNextCall(t) ==
    /\ UNCHANGED <<requestVars, callVars>>
    /\ lpc[t] \in {"returned_list", "returned_none"}
    /\ lpc' = [lpc EXCEPT ![t] = "idle"]
    /\ UNCHANGED <<reranker, loads>>

NextLoad ==
    \E t \in Threads :
        \/ BgeImport(t)
        \/ BgeCheck(t)
        \/ BgeLoad(t)
        \/ BgeLoadCpu(t)
        \/ BgePredict(t)
        \/ BgeNextCall(t)

SpecLoad == InitLoad /\ [][NextLoad]_vars

(* --------------------- hybrid_search as a function --------------------- *)
\* largest k of a call and longest keyword list handed to the fusion
MaxK == 3
MaxKwRows == 2

\* lists retrieve_with_metadata can hand to the fusion
VectorLists == { WithMetadata(ds) : ds \in SearchResults(MaxDocs) }
\* keyword rows in any order, a document possibly more than once
KeywordLists == UNION { [1..m -> [doc_id : KwDocIds, score : KwScores]] : m \in 0..MaxKwRows }

FusionCalls == [fn : {"hybrid_search"}, vres : VectorLists, kres : KeywordLists, k : 1..MaxK]

InitFusion ==
    /\ Quiet
    /\ reranker = <<>>
    /\ lpc = [t \in Threads |-> "idle"]
    /\ loads = 0
    /\ arg \in FusionCalls
    /\ ret = <<>>

\* hybrid_search.py:186-230 on the two lists of the call
CallFusion ==
    /\ ret = <<>>
    /\ ret' = <<HybridResults(arg.vres, arg.kres, arg.k)>>
    /\ UNCHANGED <<requestVars, reranker, loadVars, arg>>

SpecFusion == InitFusion /\ [][CallFusion]_vars

(* ------------------- clean_column_name as a function ------------------- *)
\* a column name is a sequence of pieces: a run of letters, a double quote, a
\* single quote, a backslash or a blank
MaxNameLen == 5
NamePieces == {"amount", "\"", "'", "\\", " "}
Names == UNION { [1..n -> NamePieces] : n \in 0..MaxNameLen }

\* str.strip(): the blanks at both ends go
Strip(s) ==
    LET solid == { i \in 1..Len(s) : s[i] # " " }
    IN  IF solid = {} THEN <<>>
        ELSE SubSeq(s, CHOOSE i \in solid : \A j \in solid : i <= j,
                       CHOOSE i \in solid : \A j \in solid : j <= i)

\* table_query.py:17: name.startswith(q) and name.endswith(q) for a quote q
QuoteWrapped(s) ==
    /\ s # <<>>
    /\ \E q \in {"\"", "'"} : s[1] = q /\ s[Len(s)] = q

\* table_query.py:17-18: while the name is wrapped, name = name[1:-1].strip()
RECURSIVE Unwrap(_)
Unwrap(s) == IF QuoteWrapped(s) THEN Unwrap(Strip(SubSeq(s, 2, Len(s) - 1))) ELSE s

\* str.replace(backslash + q, ''): one pass from the left over the occurrences
\* that do not overlap
RECURSIVE RemoveEscaped(_, _)
RemoveEscaped(s, q) ==
    IF Len(s) < 2 THEN s
    ELSE IF s[1] = "\\" /\ s[2] = q THEN RemoveEscaped(SubSeq(s, 3, Len(s)), q)
    ELSE <<s[1]>> \o RemoveEscaped(Tail(s), q)

\* table_query.py:12-20
clean_column_name(name) ==
    IF name = <<>> THEN name
    ELSE Strip(RemoveEscaped(RemoveEscaped(Unwrap(Strip(name)), "\""), "'"))

HasEscapedQuote(s) ==
    \E i \in 1..(Len(s) - 1) : s[i] = "\\" /\ s[i + 1] \in {"\"", "'"}

CleanCalls == [fn : {"clean_column_name"}, name : Names]

InitClean ==
    /\ Quiet
    /\ reranker = <<>>
    /\ lpc = [t \in Threads |-> "idle"]
    /\ loads = 0
    /\ arg \in CleanCalls
    /\ ret = <<>>

\* the name is sanitized
CallClean ==
    /\ ret = <<>>
    /\ ret' = <<clean_column_name(arg.name)>>
    /\ UNCHANGED <<requestVars, reranker, loadVars, arg>>

\* the sanitized name is sanitized again, as the filter loop does with the keys
\* of the cleaned filters (table_query.py:174-176, then 222)
CallCleanAgain ==
    /\ Len(ret) = 1
    /\ ret' = Append(ret, clean_column_name(ret[1]))
    /\ UNCHANGED <<requestVars, reranker, loadVars, arg>>

NextClean == CallClean \/ CallCleanAgain

SpecClean == InitClean /\ [][NextClean]_vars

(* ------------------ the filter loop of stream_table_query -------------- *)
\* A cell and a filter condition are texts: sequences of pieces, a piece being
\* one of the characters > < = - or a run of digits or of letters.  <<>> is the
\* value a condition takes for false: None or the empty string.
MaxFilters == 2
MaxRows == 2

NumberPieces == {"10", "20", "50", "100", "150"}
NumOf(p) ==
    CASE p = "10" -> 10 [] p = "20" -> 20 [] p = "50" -> 50 [] p = "100" -> 100
      [] p = "150" -> 150

\* str.lower() on the pieces that hold capitals
LowerPiece(p) ==
    CASE p = "Amount" -> "amount"
      [] p = "AMOUNT" -> "amount"
      [] p = "Bob" -> "bob"
      [] p = "A" -> "a"
      [] OTHER -> p
Lower(s) == [i \in 1..Len(s) |-> LowerPiece(s[i])]

\* needle in hay
Contains(hay, needle) ==
    \E i \in 0..(Len(hay) - Len(needle)) : SubSeq(hay, i + 1, i + Len(needle)) = needle

\* float(text): <<>> stands for ValueError, <<n>> for the number
ParseFloat(s) ==
    LET t == Strip(s)
    IN  IF Len(t) = 1 /\ t[1] \in NumberPieces THEN <<NumOf(t[1])>>
        ELSE IF Len(t) = 2 /\ t[1] = "-" /\ t[2] \in NumberPieces THEN <<0 - NumOf(t[2])>>
        ELSE <<>>

\* str.split("-")
RECURSIVE SplitDash(_)
SplitDash(s) ==
    LET dashes == { i \in 1..Len(s) : s[i] = "-" }
    IN  IF dashes = {} THEN <<s>>
        ELSE LET d == CHOOSE i \in dashes : \A j \in dashes : i <= j
             IN  <<SubSeq(s, 1, d - 1)>> \o SplitDash(SubSeq(s, d + 1, Len(s)))

StartsWith(s, prefix) == Len(s) >= Len(prefix) /\ SubSeq(s, 1, Len(prefix)) = prefix

\* a chain of tests that looks for the one-character operators first
ConditionKindGtFirst(filter_str) ==
    IF StartsWith(filter_str, <<">">>) THEN ">"
    ELSE IF StartsWith(filter_str, <<"<">>) THEN "<"
    ELSE IF StartsWith(filter_str, <<">", "=">>) THEN ">="
    ELSE IF StartsWith(filter_str, <<"<", "=">>) THEN "<="
    ELSE IF Contains(filter_str, <<"-">>) /\ ~StartsWith(filter_str, <<"-">>) THEN "range"
    ELSE "plain"

\* table_query.py:258-287: the branch of the if/elif chain a condition takes
ConditionKind(filter_str) ==
    IF StartsWith(filter_str, <<">", "=">>) THEN ">="
    ELSE IF StartsWith(filter_str, <<"<", "=">>) THEN "<="
    ELSE IF StartsWith(filter_str, <<">">>) THEN ">"
    ELSE IF StartsWith(filter_str, <<"<">>) THEN "<"
    ELSE IF Contains(filter_str, <<"-">>) /\ ~StartsWith(filter_str, <<"-">>) THEN "range"
    ELSE "plain"

\* table_query.py:283-285 and 288-290: the text test both handlers fall back to
TextMatch(cell_value, filter_str) == Contains(Lower(cell_value), Lower(filter_str))

\* table_query.py:254-290: TRUE when the condition leaves match as it is, FALSE
\* when it sets match = False
CellMatches(cell_value, filter_str) ==
    LET cell_num == IF cell_value = <<>> THEN <<0>> ELSE ParseFloat(cell_value)
        kind == ConditionKind(filter_str)
        rest == ParseFloat(SubSeq(filter_str, IF kind \in {">=", "<="} THEN 3 ELSE 2,
                                  Len(filter_str)))
        parts == SplitDash(filter_str)
    IN  IF cell_num = <<>> THEN TextMatch(cell_value, filter_str)
        ELSE IF kind \in {">=", "<=", ">", "<"}
        THEN IF rest = <<>> THEN TextMatch(cell_value, filter_str)
             ELSE CASE kind = ">=" -> ~(cell_num[1] < rest[1])
                    [] kind = "<=" -> ~(cell_num[1] > rest[1])
                    [] kind = ">" -> ~(cell_num[1] <= rest[1])
                    [] kind = "<" -> ~(cell_num[1] >= rest[1])
        ELSE IF kind = "range"
        THEN IF Len(parts) # 2 THEN TRUE
             ELSE IF ParseFloat(parts[1]) = <<>> \/ ParseFloat(parts[2]) = <<>>
             THEN TextMatch(cell_value, filter_str)
             ELSE ParseFloat(parts[1])[1] <= cell_num[1] /\ cell_num[1] <= ParseFloat(parts[2])[1]
        ELSE IF ParseFloat(filter_str) = <<>> THEN TextMatch(cell_value, filter_str)
             ELSE cell_num[1] = ParseFloat(filter_str)[1]

\* a lookup that compares the names as they are written
ResolveColumnExact(column, columns) ==
    LET hits == { i \in 1..Len(columns) : columns[i] = column }
    IN  IF hits = {} THEN <<>>
        ELSE <<columns[CHOOSE i \in hits : \A j \in hits : i <= j]>>

\* table_query.py:225-229: the first column whose lowered name is the lowered
\* name of the filter; <<>> when there is none
ResolveColumn(column, columns) ==
    LET hits == { i \in 1..Len(columns) : Lower(columns[i]) = Lower(column) }
    IN  IF hits = {} THEN <<>>
        ELSE <<columns[CHOOSE i \in hits : \A j \in hits : i <= j]>>

\* table_query.py:220-292: the loop over filters.items() for one row, from the
\* i-th filter on; "continue" goes to the next filter, "break" ends with FALSE
RECURSIVE MatchFrom(_, _, _, _)
MatchFrom(row, filters, columns, i) ==
    IF i > Len(filters) THEN TRUE
    ELSE LET actual_column == ResolveColumn(clean_column_name(filters[i].key), columns)
             filter_str == Strip(filters[i].val)
         IN  IF actual_column = <<>> THEN MatchFrom(row, filters, columns, i + 1)
             ELSE IF filter_str = <<>> THEN MatchFrom(row, filters, columns, i + 1)
             ELSE IF actual_column[1] = <<>> THEN MatchFrom(row, filters, columns, i + 1)
             ELSE IF actual_column[1] \notin DOMAIN row
             THEN MatchFrom(row, filters, columns, i + 1)
             ELSE IF CellMatches(row[actual_column[1]], filter_str)
             THEN MatchFrom(row, filters, columns, i + 1)
             ELSE FALSE

\* table_query.py:216-294
FilterRows(filters, all_data, columns) ==
    IF filters = <<>> THEN all_data
    ELSE SelectSeq(all_data, LAMBDA row : MatchFrom(row, filters, columns, 1))

\* the data source of the calls: its columns and its rows in their order, the
\* last row without a cell for Amount; a call sees up to MaxRows of the rows
Columns == << <<"Amount">>, <<"name">> >>
Row(amount, name) == (<<"Amount">> :> amount) @@ (<<"name">> :> name)
TableRows ==
    << Row(<<"150">>, <<"Bob">>), Row(<<"50">>, <<"al">>), Row(<<"100">>, <<"Bob">>),
       Row(<<>>, <<"al">>), (<<"name">> :> <<"al">>) >>
NthOf(S, n) == CHOOSE x \in S : Cardinality({ y \in S : y < x }) = n - 1
RowLists ==
    { [n \in 1..Cardinality(S) |-> TableRows[NthOf(S, n)]] :
        S \in { T \in SUBSET (1..Len(TableRows)) : Cardinality(T) <= MaxRows } }

\* the filters of a plan: a dict, its items in order, no column twice
FilterColumns == { <<"\"", "AMOUNT", "\"">>, <<"price">>, <<"name">> }
FilterValues ==
    { <<>>, <<">", "100">>, <<">", "=", "100">>, <<"<", "100">>, <<"<", "=", "100">>,
      <<"50", "-", "150">>, <<"100">>, <<"bob">> }
FilterDicts ==
    { fs \in UNION { [1..n -> [key : FilterColumns, val : FilterValues]] : n \in 0..MaxFilters } :
        \A i, j \in 1..Len(fs) : fs[i].key = fs[j].key => i = j }

FilterCalls == [fn : {"filter"}, filters : FilterDicts, rows : RowLists]

InitFilter ==
    /\ Quiet
    /\ reranker = <<>>
    /\ lpc = [t \in Threads |-> "idle"]
    /\ loads = 0
    /\ arg \in FilterCalls
    /\ ret = <<>>

\* the rows of the data source go through the filters of the plan
CallFilter ==
    /\ ret = <<>>
    /\ ret' = <<FilterRows(arg.filters, arg.rows, Columns)>>
    /\ UNCHANGED <<requestVars, reranker, loadVars, arg>>

SpecFilter == InitFilter /\ [][CallFilter]_vars

(* --------------------- the plan of stream_table_query ------------------ *)
\* The response of the model is a text: a sequence of pieces, a piece being a
\* brace, a comma, a member "key": value with a scalar value, the key "filters":
\* in front of its object, or a run of other words.
MaxTextLen == 4

None == <<>>
Words == "Here is the plan"
FiltersKey == "\"filters\":"

\* the members a response can hold: the piece as written, its key and its value
\* as json.loads returns them
ResponseMembers ==
    { [piece |-> "\"limit\": 5", key |-> <<"limit">>, val |-> <<"5">>],
      [piece |-> "\"limit\": null", key |-> <<"limit">>, val |-> None],
      [piece |-> "\"statistics\": \"sum\"", key |-> <<"statistics">>, val |-> <<"sum">>],
      [piece |-> "\"statistics\": null", key |-> <<"statistics">>, val |-> None],
      [piece |-> "\"statistics_column\": \"amount\"", key |-> <<"statistics_column">>,
       val |-> <<"amount">>],
      [piece |-> "\"statistics_column\": null", key |-> <<"statistics_column">>, val |-> None],
      [piece |-> "\"sort_by\": \"'amount'\"", key |-> <<"sort_by">>,
       val |-> <<"'", "amount", "'">>],
      [piece |-> "\"sort_by\": \"amount\"", key |-> <<"sort_by">>, val |-> <<"amount">>],
      [piece |-> "\"sort_by\": null", key |-> <<"sort_by">>, val |-> None],
      [piece |-> "\"sort_order\": \"asc\"", key |-> <<"sort_order">>, val |-> <<"asc">>],
      [piece |-> "\"sort_order\": \"desc\"", key |-> <<"sort_order">>, val |-> <<"desc">>],
      [piece |-> "\"explanation\": \"x\"", key |-> <<"explanation">>, val |-> <<"x">>],
      [piece |-> "\"amount\": \">100\"", key |-> <<"amount">>, val |-> <<">", "100">>],
      [piece |-> "\"name\": \"bob\"", key |-> <<"name">>, val |-> <<"bob">>] }
IsMember(piece) == \E m \in ResponseMembers : m.piece = piece
MemberOf(piece) == CHOOSE m \in ResponseMembers : m.piece = piece
PieceOf(key, val) == (CHOOSE m \in ResponseMembers : m.key = key /\ m.val = val).piece

\* a dict: its items in insertion order; d[key] = val
DictSet(d, key, val) ==
    IF \E i \in 1..Len(d) : d[i].key = key
    THEN [i \in 1..Len(d) |-> IF d[i].key = key THEN [key |-> key, val |-> val] ELSE d[i]]
    ELSE Append(d, [key |-> key, val |-> val])
HasKey(d, key) == \E i \in 1..Len(d) : d[i].key = key
\* d.get(key, default)
Get(d, key, default) ==
    IF HasKey(d, key) THEN d[CHOOSE i \in 1..Len(d) : d[i].key = key].val ELSE default

\* table_query.py:161 re.search(r"\{[^{}]*\}", text): the leftmost opening
\* brace that is followed by a closing brace with no brace in between; <<>> when
\* there is none, else <<i, j>>, the positions of the two braces
FirstSpan(text) ==
    LET spans == { ij \in (1..Len(text)) \X (1..Len(text)) :
                     /\ ij[1] < ij[2]
                     /\ text[ij[1]] = "{"
                     /\ text[ij[2]] = "}"
                     /\ \A n \in (ij[1] + 1)..(ij[2] - 1) : text[n] \notin {"{", "}"} }
    IN  IF spans = {} THEN <<>>
        ELSE CHOOSE ij \in spans : \A other \in spans : ij[1] <= other[1]

\* json.loads on a span without inner braces: the pieces between the braces are
\* members separated by commas, or json.loads raises
Loadable(inner) ==
    \/ inner = <<>>
    \/ /\ Len(inner) % 2 = 1
       /\ \A i \in 1..Len(inner) :
            IF i % 2 = 1 THEN IsMember(inner[i]) ELSE inner[i] = ","
RECURSIVE LoadFrom(_, _, _)
LoadFrom(inner, i, d) ==
    IF i > Len(inner) THEN d
    ELSE LoadFrom(inner, i + 2, DictSet(d, MemberOf(inner[i]).key, MemberOf(inner[i]).val))
JsonLoads(inner) == LoadFrom(inner, 1, <<>>)

\* a fallback that keeps nothing of the response
EmptyPlanNoText(text) ==
    << [key |-> <<"filters">>, val |-> <<>>],
       [key |-> <<"statistics">>, val |-> None],
       [key |-> <<"explanation">>, val |-> <<>>] >>

\* table_query.py:166 and 169
EmptyPlan(text) ==
    << [key |-> <<"filters">>, val |-> <<>>],
       [key |-> <<"statistics">>, val |-> None],
       [key |-> <<"explanation">>, val |-> text] >>

\* table_query.py:160-169
ParsePlan(text) ==
    LET span == FirstSpan(text)
        inner == SubSeq(text, span[1] + 1, span[2] - 1)
    IN  IF span = <<>> THEN EmptyPlan(text)
        ELSE IF ~Loadable(inner) THEN EmptyPlan(text)
        ELSE JsonLoads(inner)

\* table_query.py:171-180: the names in the plan are cleaned.  The value of
\* "filters" is a dict only in the fallback plan, where it is empty.
CleanPlan(analysis_result) ==
    LET a == IF HasKey(analysis_result, <<"statistics_column">>)
             THEN DictSet(analysis_result, <<"statistics_column">>,
                          clean_column_name(Get(analysis_result, <<"statistics_column">>, None)))
             ELSE analysis_result
    IN  IF HasKey(a, <<"sort_by">>)
        THEN DictSet(a, <<"sort_by">>, clean_column_name(Get(a, <<"sort_by">>, None)))
        ELSE a

\* what the loop over the data sources reads from the plan: table_query.py:187,
\* 296-298, 323, 327-328
Executed(analysis_result) ==
    [filters |-> Get(analysis_result, <<"filters">>, <<>>),
     sort_by |-> clean_column_name(Get(analysis_result, <<"sort_by">>, None)),
     sort_order |-> Get(analysis_result, <<"sort_order">>, <<"asc">>),
     limit |-> Get(analysis_result, <<"limit">>, None),
     statistics |-> Get(analysis_result, <<"statistics">>, None),
     statistics_column |-> Get(analysis_result, <<"statistics_column">>, None)]

\* the plans the prompt asks for (table_query.py:118-140), and their text as
\* strictly valid JSON
RequestedFilters ==
    { <<>>,
      <<[key |-> <<"amount">>, val |-> <<">", "100">>]>>,
      <<[key |-> <<"amount">>, val |-> <<">", "100">>], [key |-> <<"name">>, val |-> <<"bob">>]>> }
RequestedPlans ==
    [filters : RequestedFilters, statistics : {None, <<"sum">>},
     statistics_column : {None, <<"amount">>}, sort_by : {None, <<"amount">>},
     sort_order : {<<"asc">>, <<"desc">>}, limit : {None, <<"5">>}]
RECURSIVE RenderMembers(_)
RenderMembers(d) ==
    IF d = <<>> THEN <<>>
    ELSE IF Len(d) = 1 THEN <<PieceOf(d[1].key, d[1].val)>>
    ELSE <<PieceOf(d[1].key, d[1].val), ",">> \o RenderMembers(Tail(d))
Render(p) ==
    <<"{", FiltersKey, "{">> \o RenderMembers(p.filters) \o <<"}", ",">>
    \o RenderMembers(<< [key |-> <<"statistics">>, val |-> p.statistics],
                        [key |-> <<"statistics_column">>, val |-> p.statistics_column],
                        [key |-> <<"sort_by">>, val |-> p.sort_by],
                        [key |-> <<"sort_order">>, val |-> p.sort_order],
                        [key |-> <<"limit">>, val |-> p.limit],
                        [key |-> <<"explanation">>, val |-> <<"x">>] >>)
    \o <<"}">>

\* the other responses: every short text over these pieces
ShortPieces ==
    {"{", "}", ",", Words, FiltersKey, "\"limit\": 5", "\"sort_by\": \"'amount'\""}
Responses ==
    { Render(p) : p \in RequestedPlans }
    \cup UNION { [1..n -> ShortPieces] : n \in 0..MaxTextLen }

\* the rows of the data source of these calls
PlanRows == << Row(<<"150">>, <<"Bob">>), Row(<<"50">>, <<"al">>) >>

PlanCalls == [fn : {"plan"}, text : Responses]

InitPlan ==
    /\ Quiet
    /\ reranker = <<>>
    /\ lpc = [t \in Threads |-> "idle"]
    /\ loads = 0
    /\ arg \in PlanCalls
    /\ ret = <<>>

\* table_query.py:160-180: the response becomes the plan
CallCompile ==
    /\ ret = <<>>
    /\ ret' = <<CleanPlan(ParsePlan(arg.text))>>
    /\ UNCHANGED <<requestVars, reranker, loadVars, arg>>

\* table_query.py:184-294: the rows of the data source go through the filters
\* the plan holds
CallExecute ==
    /\ arg.fn = "plan"
    /\ Len(ret) = 1
    /\ ret' = Append(ret, FilterRows(Executed(ret[1]).filters, PlanRows, Columns))
    /\ UNCHANGED <<requestVars, reranker, loadVars, arg>>

NextPlan == CallCompile \/ CallExecute

SpecPlan == InitPlan /\ [][NextPlan]_vars

(* ------------------ one condition of the filter loop ------------------- *)
\* cells and conditions of a few pieces.  Two runs of digits never stand side
\* by side in a text (they would be one run), and none of the numbers used here
\* is written inside another.
MaxCondLen == 3
MaxCellLen == 2

CondPieces == {">", "<", "=", "-", " ", "100", "150", "bob"}
CellPieces == {"100", "150", "Bob", "-"}
WellFormedText(s) ==
    \A i \in 1..(Len(s) - 1) : ~(s[i] \in NumberPieces /\ s[i + 1] \in NumberPieces)

\* table_query.py:236-237, 255: a condition reaches the tests stripped and not
\* empty
Conditions ==
    { s \in UNION { [1..n -> CondPieces] : n \in 1..MaxCondLen } :
        WellFormedText(s) /\ s[1] # " " /\ s[Len(s)] # " " }
Cells == { s \in UNION { [1..n -> CellPieces] : n \in 0..MaxCellLen } : WellFormedText(s) }

ConditionCalls == [fn : {"condition"}, cell_value : Cells, filter_str : Conditions]

InitCondition ==
    /\ Quiet
    /\ reranker = <<>>
    /\ lpc = [t \in Threads |-> "idle"]
    /\ loads = 0
    /\ arg \in ConditionCalls
    /\ ret = <<>>

\* table_query.py:254-290 on one cell and one condition: whether match stays
\* True
CallCondition ==
    /\ ret = <<>>
    /\ arg.fn = "condition"
    /\ ret' = <<CellMatches(arg.cell_value, arg.filter_str)>>
    /\ UNCHANGED <<requestVars, reranker, loadVars, arg>>

SpecCondition == InitCondition /\ [][CallCondition]_vars

(* ------------- sort, limit and statistics of one data source ----------- *)
MaxAggRows == 3

Stats == { <<"sum">>, <<"avg">>, <<"max">>, <<"min">> }

\* the order of str values under <: the cells of the data source below
LexRank(cell) ==
    CASE cell = <<>> -> 0
      [] cell = <<"10">> -> 1
      [] cell = <<"150">> -> 2
      [] cell = <<"20">> -> 3
      [] cell = <<"n/a">> -> 4

\* str(x.get(sort_by, ""))
SortText(row, sort_by) == IF sort_by \in DOMAIN row THEN row[sort_by] ELSE <<>>
\* table_query.py:308-310: the key is a float when the text is digits only
KeyIsFloat(row, sort_by) ==
    LET t == SortText(row, sort_by) IN Len(t) = 1 /\ t[1] \in NumberPieces

\* list.sort(key, reverse): stable, equal keys keep their order also when
\* reversed; key maps a position to an integer
SortedBy(rows, key, reverse) ==
    LET before(j, i) ==
            \/ IF reverse THEN key[j] > key[i] ELSE key[j] < key[i]
            \/ key[j] = key[i] /\ j < i
        pos(i) == 1 + Cardinality({ j \in 1..Len(rows) : before(j, i) })
    IN  [p \in 1..Len(rows) |-> rows[CHOOSE i \in 1..Len(rows) : pos(i) = p]]

\* table_query.py:296-321 (search.py:467-494): the sort column is looked up
\* without regard to case; the numeric sort raises TypeError when a float key
\* meets a str key, and the rows are then sorted as text
SortRows(plan, rows, columns) ==
    LET sort_column == IF plan.sort_by = <<>> THEN <<>>
                       ELSE ResolveColumn(clean_column_name(plan.sort_by), columns)
        reverse == plan.sort_order = <<"desc">>
    IN  IF sort_column = <<>> THEN rows
        ELSE LET col == sort_column[1]
                 floats == { i \in 1..Len(rows) : KeyIsFloat(rows[i], col) }
             IN  IF floats = 1..Len(rows)
                 THEN SortedBy(rows, [i \in 1..Len(rows) |-> NumOf(rows[i][col][1])], reverse)
                 ELSE SortedBy(rows, [i \in 1..Len(rows) |-> LexRank(SortText(rows[i], col))],
                               reverse)

\* table_query.py:323-325: limit is <<>> or <<n>>
ApplyLimit(plan, rows) ==
    IF plan.limit # <<>> /\ plan.limit[1] > 0 THEN Take(rows, plan.limit[1]) ELSE rows

\* table_query.py:355-368: the cells of the column that float() accepts
RECURSIVE NumericValues(_, _)
NumericValues(rows, col) ==
    IF rows = <<>> THEN <<>>
    ELSE LET row == Head(rows)
             here == IF col \notin DOMAIN row THEN <<>>
                     ELSE IF row[col] = <<>> THEN <<>>
                     ELSE ParseFloat(row[col])
         IN  here \o NumericValues(Tail(rows), col)

RECURSIVE SumSeq(_)
SumSeq(values) == IF values = <<>> THEN 0 ELSE Head(values) + SumSeq(Tail(values))
MaxOf(values) == CHOOSE v \in { values[i] : i \in 1..Len(values) } :
                    \A i \in 1..Len(values) : values[i] <= v
MinOf(values) == CHOOSE v \in { values[i] : i \in 1..Len(values) } :
                    \A i \in 1..Len(values) : v <= values[i]

\* table_query.py:370-382: the value as a fraction, avg = sum(values) / len(values)
StatValue(stat_type, values) ==
    CASE stat_type = <<"sum">> -> [num |-> SumSeq(values), den |-> 1]
      [] stat_type = <<"avg">> -> [num |-> SumSeq(values), den |-> Len(values)]
      [] stat_type = <<"max">> -> [num |-> MaxOf(values), den |-> 1]
      [] stat_type = <<"min">> -> [num |-> MinOf(values), den |-> 1]

\* one entry of query_results: its text is one of a few kinds, "value" is the
\* value under "statistics" when the entry has one
QueryResult(src, kind, value, total) ==
    [src |-> src, kind |-> kind, value |-> value, total |-> total,
     doc_id |-> <<>>, chunk_index |-> <<>>, score |-> <<>>]

\* table_query.py:327-419 and search.py:502-608: the entries one data source
\* adds to query_results.  The two files differ in the last branch of the
\* statistics: "elif stat_type and stat_type != 'count'" in table_query.py:404,
\* "else" in search.py:585.
SourceResults(plan, data, columns, src, file) ==
    LET n == Len(data)
        stat_type == plan.statistics
        counted == IF stat_type = <<"count">>
                   THEN <<QueryResult(src, "count", <<[num |-> n, den |-> 1]>>, n)>>
                   ELSE <<>>
        stat_column ==
            IF stat_type # <<"count">> /\ stat_type \in Stats /\ plan.statistics_column # <<>>
            THEN ResolveColumn(clean_column_name(plan.statistics_column), columns)
            ELSE IF plan.statistics_column = <<>> THEN <<>>
            ELSE <<plan.statistics_column>>
        resolved == stat_column # <<>> /\ \E i \in 1..Len(columns) : columns[i] = stat_column[1]
        values == NumericValues(data, stat_column[1])
    IN  IF stat_type = <<>> THEN <<QueryResult(src, "found", <<>>, n)>>
        ELSE counted \o
             (IF stat_type \in Stats /\ resolved
              THEN IF values # <<>>
                   THEN <<QueryResult(src, "statistic", <<StatValue(stat_type, values)>>, n)>>
                   ELSE <<QueryResult(src, "no numeric value", <<>>, n)>>
              ELSE IF file = "search.py" \/ stat_type # <<"count">>
              THEN <<QueryResult(src, "found", <<>>, n)>>
              ELSE <<>>)

\* table_query.py:184-419: filter, sort, limit and statistics of one data source
QuerySource(plan, all_data, columns, src, file) ==
    SourceResults(plan,
                  ApplyLimit(plan, SortRows(plan, FilterRows(plan.filters, all_data, columns),
                                            columns)),
                  columns, src, file)

\* the loop over all_schemas: every data source holds the same rows here
RECURSIVE QueryResults(_, _, _, _, _)
QueryResults(plan, all_data, columns, n_sources, file) ==
    IF n_sources = 0 THEN <<>>
    ELSE QueryResults(plan, all_data, columns, n_sources - 1, file)
         \o QuerySource(plan, all_data, columns, <<"data_source", n_sources>>, file)

\* the rows of a data source in its order, the last without a cell for Amount
AggTable ==
    << Row(<<"20">>, <<"Bob">>), Row(<<"10">>, <<"al">>), Row(<<"n/a">>, <<"Bob">>),
       Row(<<"150">>, <<"al">>), Row(<<>>, <<"Bob">>), (<<"name">> :> <<"al">>) >>
AggRowLists ==
    { [n \in 1..Cardinality(S) |-> AggTable[NthOf(S, n)]] :
        S \in { T \in SUBSET (1..Len(AggTable)) : Cardinality(T) <= MaxAggRows } }

AggPlans ==
    [filters : { <<>>, <<[key |-> <<"\"", "AMOUNT", "\"">>, val |-> <<">", "10">>]>> },
     sort_by : { <<>>, <<"amount">> },
     sort_order : { <<"asc">>, <<"desc">> },
     limit : { <<>>, <<0>>, <<1>> },
     statistics : { <<>>, <<"count">>, <<"median">> } \cup Stats,
     statistics_column : { <<>>, <<"AMOUNT">>, <<"price">> }]

\* search.py is the code the router runs; table_query.py holds the same loop
\* as a function
AggCalls ==
    [fn : {"query"}, plan : AggPlans, rows : AggRowLists, n_sources : 1..MaxSources,
     file : {"search.py", "table_query.py"}]

InitQuery ==
    /\ Quiet
    /\ reranker = <<>>
    /\ lpc = [t \in Threads |-> "idle"]
    /\ loads = 0
    /\ arg \in AggCalls
    /\ ret = <<>>

\* the loop over the data sources fills query_results
CallQuery ==
    /\ ret = <<>>
    /\ arg.fn = "query"
    /\ ret' = <<QueryResults(arg.plan, arg.rows, Columns, arg.n_sources, arg.file)>>
    /\ UNCHANGED <<requestVars, reranker, loadVars, arg>>

\* search.py:698-710, table_query.py:507-519: the citations of the results
CallCitations ==
    /\ arg.fn = "query"
    /\ Len(ret) = 1
    /\ ret' = Append(ret, TableCitations(ret[1]))
    /\ UNCHANGED <<requestVars, reranker, loadVars, arg>>

NextQuery == CallQuery \/ CallCitations

SpecQuery == InitQuery /\ [][NextQuery]_vars

(* ------------------ the synthesis instruction of a request -------------- *)
\* rerank_k values of a QuerySpec: schemas.py declares an int with default 5
MaxRerankK == 5

\* search.py:774 / doc_query.py:51-55
StrictInstruction == <<"strict mode: below 80% relevance answer 'nothing relevant'">>

\* search.py:773 "req.rerank_k and req.rerank_k <= 3": 0 is falsy
IsStrictMode(rerank_k) == rerank_k # 0 /\ rerank_k <= 3

\* search.py:776-795: the template of the hybrid route, with the strict
\* instruction formatted into the end of the system message
HybridMessages(rerank_k, question, context) ==
    [system |-> <<"answer from the context only", "say 'nothing relevant' unless highly relevant",
                  "cite with [n]">>
                \o (IF IsStrictMode(rerank_k) THEN StrictInstruction ELSE <<>>),
     human |-> <<"question: ">> \o question \o <<"context: ">> \o context
               \o <<"answer when relevance >= 80%, else 'nothing relevant'">>]

\* rag_pipeline.py:29-47 and 262-266: the template is built once in __init__
\* and formatted with the question and the context alone
PipelineMessages(question, context) ==
    [system |-> <<"answer from the context only", "say 'nothing relevant' when unsupported",
                  "cite with [n]", "a higher score is more relevant">>,
     human |-> <<"question: ">> \o question \o <<"context: ">> \o context
               \o <<"cite with [n], say 'nothing relevant' when unsupported">>]

\* search.py:731: the hybrid route is taken with use_keyword_search, the
\* pipeline (search.py:810-815 -> rag_pipeline.stream_query) otherwise
SynthesisMessages(q, context) ==
    IF q.use_keyword_search
    THEN HybridMessages(q.rerank_k, q.question, context)
    ELSE PipelineMessages(q.question, context)

Questions == { <<"q1">>, <<"q2">> }
Contexts == { <<>>, <<"[1] ", "a">>, <<"[1] ", "a", "[2] ", "b">> }
PromptCalls ==
    [fn : {"prompt"}, use_keyword_search : BOOLEAN, rerank_k : 0..MaxRerankK,
     question : Questions, context : Contexts]

InitPrompt ==
    /\ Quiet
    /\ reranker = <<>>
    /\ lpc = [t \in Threads |-> "idle"]
    /\ loads = 0
    /\ arg \in PromptCalls
    /\ ret = <<>>

\* prompt.format_messages(...) before llm.stream(messages)
CallPrompt ==
    /\ arg.fn = "prompt" /\ ret = <<>>
    /\ ret' = <<SynthesisMessages(arg, arg.context)>>
    /\ UNCHANGED <<requestVars, reranker, loadVars, arg>>

SpecPrompt == InitPrompt /\ [][CallPrompt]_vars

(* --------------------------- the keyword score -------------------------- *)
\* texts of this section are sequences of characters
MaxQueryLen == 3
MaxFieldLen == 2
\* hybrid_search.py:104, 118: doc.content[:500]
ContentPrefixLen == 500

Letters == {"a", "b", "A"}
TextsUpTo(chars, n) == UNION { [1..m -> chars] : m \in 0..n }

\* str.split(): the maximal runs without whitespace, in order
RECURSIVE SplitWords(_, _)
SplitWords(s, word) ==
    IF s = <<>> THEN (IF word = <<>> THEN <<>> ELSE <<word>>)
    ELSE IF Head(s) = " "
         THEN (IF word = <<>> THEN <<>> ELSE <<word>>) \o SplitWords(Tail(s), <<>>)
         ELSE SplitWords(Tail(s), Append(word, Head(s)))

\* hybrid_search.py:118: title + " " + (summary or "") + " " + content[:500]
TextLower(doc) ==
    Lower(doc.title \o <<" ">> \o doc.summary \o <<" ">> \o Take(doc.content, ContentPrefixLen))

\* hybrid_search.py:122-132: what one keyword adds to the score
KeywordPoints(keyword, doc) ==
    IF Len(keyword) < 2 THEN 0
    ELSE (IF Contains(Lower(doc.title), keyword) THEN 3 ELSE 0)
       + (IF doc.summary # <<>> /\ Contains(Lower(doc.summary), keyword) THEN 2 ELSE 0)
       + (IF Contains(TextLower(doc), keyword) THEN 1 ELSE 0)

RECURSIVE SumPoints(_, _)
SumPoints(keywords, doc) ==
    IF keywords = <<>> THEN 0
    ELSE KeywordPoints(Head(keywords), doc) + SumPoints(Tail(keywords), doc)

\* hybrid_search.py:114-134
calculate_keyword_score(query, doc) == SumPoints(SplitWords(Lower(query), <<>>), doc)

\* MarkdownDoc rows: the title is set, the summary may be NULL (<<>>)
ScoredDocs ==
    [title : TextsUpTo(Letters, MaxFieldLen) \ {<<>>},
     summary : TextsUpTo(Letters, MaxFieldLen),
     content : TextsUpTo(Letters, 1)]
KeywordCalls ==
    [fn : {"keyword_score"}, query : TextsUpTo(Letters \cup {" "}, MaxQueryLen) \ {<<>>},
     doc : ScoredDocs]

InitKeyword ==
    /\ Quiet
    /\ reranker = <<>>
    /\ lpc = [t \in Threads |-> "idle"]
    /\ loads = 0
    /\ arg \in KeywordCalls
    /\ ret = <<>>

\* hybrid_search.py:98: score = self._calculate_keyword_score(query, doc)
CallKeywordScore ==
    /\ arg.fn = "keyword_score" /\ ret = <<>>
    /\ ret' = <<calculate_keyword_score(arg.query, arg.doc)>>
    /\ UNCHANGED <<requestVars, reranker, loadVars, arg>>

SpecKeyword == InitKeyword /\ [][CallKeywordScore]_vars

(* --------------------------- citation snippets -------------------------- *)
\* a chunk content is a sequence of runs; a run is n copies of one character
MaxRuns == 3
\* rag_pipeline.py:232, citations.py:27-28
SnippetLimit == 200

Runs == { [ch |-> "a", n |-> 100], [ch |-> "b", n |-> 99], [ch |-> "c", n |-> 1],
          [ch |-> "d", n |-> 2] }
ChunkContents == UNION { [1..m -> Runs] : m \in 0..MaxRuns }

\* len(content)
RECURSIVE TextLen(_)
TextLen(s) == IF s = <<>> THEN 0 ELSE Head(s).n + TextLen(Tail(s))

\* content[:n]
RECURSIVE Slice(_, _)
Slice(s, n) ==
    IF s = <<>> \/ n <= 0 THEN <<>>
    ELSE IF Head(s).n <= n THEN <<Head(s)>> \o Slice(Tail(s), n - Head(s).n)
         ELSE << [ch |-> Head(s).ch, n |-> n] >>

Ellipsis == << [ch |-> ".", n |-> 3] >>

\* rag_pipeline.py:232 and citations.py:26-28 (search.py:758 is the same
\* expression): content[:200] + "..." if len(content) > 200 else content
Snippet(content) ==
    IF TextLen(content) > SnippetLimit THEN Slice(content, SnippetLimit) \o Ellipsis
    ELSE content

SnippetCalls == [fn : {"snippet"}, route : {"pipeline", "hybrid"}, content : ChunkContents]

InitSnippet ==
    /\ Quiet
    /\ reranker = <<>>
    /\ lpc = [t \in Threads |-> "idle"]
    /\ loads = 0
    /\ arg \in SnippetCalls
    /\ ret = <<>>

\* rag_pipeline.py:229-239: the citation of a chunk on the pipeline route
CallPipelineCitation ==
    /\ arg.fn = "snippet" /\ arg.route = "pipeline" /\ ret = <<>>
    /\ ret' = <<Snippet(arg.content)>>
    /\ UNCHANGED <<requestVars, reranker, loadVars, arg>>

\* citations.py:17-44: the citation of a search result on the hybrid route
CallHybridCitation ==
    /\ arg.fn = "snippet" /\ arg.route = "hybrid" /\ ret = <<>>
    /\ ret' = <<Snippet(arg.content)>>
    /\ UNCHANGED <<requestVars, reranker, loadVars, arg>>

NextSnippet == CallPipelineCitation \/ CallHybridCitation
SpecSnippet == InitSnippet /\ [][NextSnippet]_vars

(* ------------------------------ properties ----------------------------- *)
\* positions of the events of a type in the stream of the request
EventsOfType(t) == { i \in 1..Len(events) : events[i].type = t }
TerminalEvents == EventsOfType("final") \cup EventsOfType("error")
LastEvent == events[Len(events)]
\* payloads of the chunk events, in emission order
ChunkPayloads ==
    LET cs == SelectSeq(events, LAMBDA e : e.type = "chunk")
    IN  [i \in 1..Len(cs) |-> cs[i].chunk]
\* the final event the exception handler emits
IsFailureFinal(e) ==
    e.type = "final" /\ e.answer # <<>> /\ e.answer[1] = QueryFailedPrefix[1]
Contiguous(cs) == \A i \in 1..Len(cs) : cs[i].index = i
DocumentRequest == ~TableRoute

\* C1: on both routes of a document request, a chunk event is never emitted
\* unless a citations event was emitted before it.
C1_CitationsBeforeChunks ==
    DocumentRequest =>
        \A i \in EventsOfType("chunk") : \E j \in EventsOfType("citations") : j < i

\* a document request that has streamed a chunk behind its citations
C1_Witness ==
    /\ DocumentRequest
    /\ EventsOfType("chunk") # {}
    /\ Len(events[1].citations) >= 1

\* C2: when a document request has run to its end, its stream holds exactly one
\* terminal event (final or error) and that event is the last of the stream,
\* also when the pipeline behind the gRPC adapter delivers an error result.
C2_OneTerminalEventLast ==
    (DocumentRequest /\ pc = "done") =>
        /\ Cardinality(TerminalEvents) = 1
        /\ TerminalEvents = {Len(events)}

\* C3: every chunk payload of a document request is non-empty, and when the
\* request is not gated and its generation completes, the answer of the final
\* event is the concatenation of the chunk payloads in emission order.
C3_AnswerIsConcatenation ==
    DocumentRequest =>
        /\ \A i \in EventsOfType("chunk") : events[i].chunk # <<>>
        /\ (pc = "final_sent" /\ (Hybrid \/ ~Gated(results))) =>
                /\ LastEvent.type = "final"
                /\ LastEvent.answer = Join(ChunkPayloads)

\* a completed generation of two different chunks
C3_Witness ==
    /\ DocumentRequest
    /\ pc = "final_sent"
    /\ Len(ChunkPayloads) = 2
    /\ ChunkPayloads[1] # ChunkPayloads[2]
    /\ LastEvent.answer = ChunkPayloads[1] \o ChunkPayloads[2]

\* C4 as stated: whenever a request has emitted a citations event and a final
\* event, the final event carries the payload of the citations event, also when
\* generation failed behind the citations event; indices are 1..n.
C4_FinalCitationsAsSent ==
    \A i \in EventsOfType("citations"), j \in EventsOfType("final") :
        /\ events[j].citations = events[i].citations
        /\ Contiguous(events[i].citations)

\* C4 amended: the citation indices of every citations and final event are 1..n
\* in list order; a final event that is not the "query failed" final carries
\* exactly the payload of the citations event of its request, and the "query
\* failed" final carries an empty list.
C4_FinalCitationsUnlessFailed ==
    /\ \A i \in EventsOfType("citations") : Contiguous(events[i].citations)
    /\ \A j \in EventsOfType("final") :
        IF IsFailureFinal(events[j])
        THEN events[j].citations = <<>>
        ELSE \A i \in EventsOfType("citations") :
                events[j].citations = events[i].citations

\* a request whose final event repeats a citations payload of two entries
C4_Witness ==
    \E i \in EventsOfType("citations"), j \in EventsOfType("final") :
        /\ Len(events[i].citations) >= 2
        /\ events[j].citations = events[i].citations
        /\ ~IsFailureFinal(events[j])

\* C5: on the vector+rerank route a gated request (empty list or best score
\* below the threshold) emits exactly the empty citations event and the fixed
\* final event, and no call to the language model was made for it, neither for
\* generation nor while reranking.
C5_GatedMakesNoLlmCall ==
    (DocumentRequest /\ ~Hybrid /\ pc \in {"gated", "final_sent"} /\ Gated(results)) =>
        /\ llm = NoLlmCalls
        /\ events = IF pc = "gated" THEN <<CitationsEvent(<<>>)>>
                    ELSE <<CitationsEvent(<<>>), FinalEvent(NoContentAnswer, <<>>)>>

\* C6: on the hybrid route an empty fusion result is gated: no generation call,
\* no chunk event, and the final event is the fixed one with no citations.
C6_EmptyFusionIsGated ==
    (Hybrid /\ pc \in {"streaming", "final_sent"} /\ results = <<>>) =>
        /\ llm.gen_calls = 0
        /\ EventsOfType("chunk") = {}
        /\ pc = "final_sent" => LastEvent = FinalEvent(NoContentAnswer, <<>>)

\* C7: the step in which retrieval, fusion or generation of a document request
\* raises appends the final event "query failed: <message>" with no citations
\* to the stream and leaves the events before it as they are.
C7_FailureEndsWithFailedFinal ==
    [][ (DocumentRequest /\ raised = <<>> /\ raised' # <<>>) =>
            events' = Append(events,
                             FinalEvent(QueryFailedPrefix \o Sanitize(raised'[1]), <<>>))
      ]_vars

\* C8: the step in which the consumer stops reading, and every step while it
\* has stopped, emits no event, takes nothing from the language model's stream,
\* makes no call to the language model and writes nothing to the history.
C8_StopReadingEndsTheRequest ==
    [][ consumer' = "stopped" =>
            /\ events' = events
            /\ answer_chunks' = answer_chunks
            /\ llm' = llm
            /\ history' = history
      ]_vars

\* the consumer stopped between two chunks of a generation
C8_Witness ==
    /\ consumer = "stopped"
    /\ Len(answer_chunks) = 1
    /\ llm.gen_calls = 1
    /\ TerminalEvents = {}

\* C9: a step that writes the answer of a request to its history row starts in
\* a state in which a terminal event of the request has been emitted.
C9_HistoryAfterTerminal ==
    [][ history'.writes > history.writes => TerminalEvents # {} ]_vars

\* a history row that holds the answer and the citations of its request
C9_Witness ==
    /\ history.writes = 1
    /\ history.answer # <<>>
    /\ Len(history.citations) >= 1
    /\ EventsOfType("final") = {Len(events)}

\* C10: no step of _rerank raises or emits; and when the cross-encoder gave no
\* ranking and every scoring call failed, retrieve() returns the first top_k
\* chunks of the list _rerank was given, in their order.
C10_RerankFallsThrough ==
    [][ (pc = "rerank_bge" \/ pc = "rerank_llm") =>
            /\ pc' \in {"rerank_bge", "rerank_llm", "retrieved"}
            /\ raised' = raised
            /\ events' = events
            /\ (pc' = "retrieved" /\ rr'.bge # "ok" /\ rr'.llm_ok = 0) =>
                    results' = WithMetadata(Take(docs, rr.top_k))
      ]_vars

\* _rerank returned behind a failed prediction and three failed scoring calls
C10_Witness ==
    /\ pc = "retrieved"
    /\ rr.status = "returned"
    /\ rr.bge = "predict_failed"
    /\ rr.llm_ok = 0
    /\ rr.llm_failed = 3
    /\ Len(results) = 2

\* C11: however the first calls of concurrent requests interleave, the
\* cross-encoder model is constructed at most once in the life of the process.
C11_LoadedAtMostOnce == loads <= 1

\* document ids of the two lists of a fusion call
VectorDocIds == { arg.vres[i].doc_id : i \in 1..Len(arg.vres) } \ {<<>>}
KeywordDocIds == { <<arg.kres[i].doc_id>> : i \in 1..Len(arg.kres) }
\* the scores of a document: of its last entry in a list, 0 when it has none
LastIn(s, hit(_)) == CHOOSE i \in 1..Len(s) : hit(s[i]) /\ \A j \in (i + 1)..Len(s) : ~hit(s[j])
VectorScoreOf(d) ==
    IF d \notin VectorDocIds THEN 0
    ELSE 10 - (arg.vres[LastIn(arg.vres, LAMBDA r : r.doc_id = d)].index - 1)
KeywordScoreOf(d) ==
    IF d \notin KeywordDocIds THEN 0
    ELSE arg.kres[LastIn(arg.kres, LAMBDA r : <<r.doc_id>> = d)].score
ExpectedHybridScore(d) == 7 * VectorScoreOf(d) + 3 * KeywordScoreOf(d)
Fused == ret[1]

\* C12: no document id occurs twice in the list hybrid_search returns.
C12_NoDuplicateDocId ==
    (ret # <<>> /\ arg.fn = "hybrid_search") =>
        \A i, j \in 1..Len(Fused) : i # j => Fused[i].doc_id # Fused[j].doc_id

\* a call whose vector list holds two chunks of a document the keyword list
\* holds too, fused into two entries
C12_Witness ==
    /\ ret # <<>>
    /\ arg.fn = "hybrid_search"
    /\ \E i, j \in 1..Len(arg.vres) :
        i # j /\ arg.vres[i].doc_id = arg.vres[j].doc_id /\ arg.vres[i].doc_id \in KeywordDocIds
    /\ Len(arg.kres) = 2 /\ arg.kres[1].doc_id = arg.kres[2].doc_id
    /\ Len(Fused) >= 1

\* C13: the list hybrid_search returns holds documents of the union of the two
\* lists, each with hybridScore = 0.7 * vectorScore + 0.3 * keywordScore/10 (0
\* for a list the document is not in), in non-increasing score order, with
\* min(k, size of the union) entries, none scoring below an omitted document,
\* and index i at position i.
C13_RankedUnion ==
    (ret # <<>> /\ arg.fn = "hybrid_search") =>
        /\ Len(Fused) = Min(arg.k, Cardinality(VectorDocIds \cup KeywordDocIds))
        /\ \A i \in 1..Len(Fused) :
            /\ Fused[i].index = i
            /\ Fused[i].doc_id \in VectorDocIds \cup KeywordDocIds
            /\ Fused[i].hybrid_score = ExpectedHybridScore(Fused[i].doc_id)
            /\ \A j \in (i + 1)..Len(Fused) : Fused[i].hybrid_score >= Fused[j].hybrid_score
            /\ \A d \in (VectorDocIds \cup KeywordDocIds)
                        \ { Fused[j].doc_id : j \in 1..Len(Fused) } :
                    ExpectedHybridScore(d) <= Fused[i].hybrid_score

\* a call that returns a document only the vector list holds and leaves out a
\* document only the keyword list holds
C13_Witness ==
    /\ ret # <<>>
    /\ arg.fn = "hybrid_search"
    /\ Len(Fused) = arg.k
    /\ \E i \in 1..Len(Fused) : Fused[i].doc_id \notin KeywordDocIds
    /\ \E d \in KeywordDocIds \ VectorDocIds :
            \A i \in 1..Len(Fused) : Fused[i].doc_id # d

\* C14: in every event sequence of a table request, a chunk event is never
\* emitted unless a citations event was emitted before it.
C14_TableCitationsBeforeChunks ==
    TableRoute =>
        \A i \in EventsOfType("chunk") : \E j \in EventsOfType("citations") : j < i

\* C15: when a table request has emitted the final event of its narration, the
\* answer of that event is the concatenation, in emission order, of the payloads
\* of all the chunk events emitted before it, also when the narration failed
\* after some chunks.
C15_TableAnswerIsConcatenation ==
    (TableRoute /\ pc = "t_final") =>
        /\ LastEvent.type = "final"
        /\ LastEvent.answer = Join(ChunkPayloads)

\* C18: for every column name, clean_column_name returns a name that is not
\* wrapped in a pair of the same quote character and holds no escaped quote,
\* sanitizing the result again changes nothing, and the name backslash-quote
\* amount backslash-quote yields amount.
C18_CleanIsIdempotent ==
    (arg.fn = "clean_column_name" /\ ret # <<>>) =>
        /\ ~QuoteWrapped(ret[1])
        /\ ~HasEscapedQuote(ret[1])
        /\ Len(ret) = 2 => ret[2] = ret[1]
        /\ arg.name = <<"\\", "\"", "amount", "\\", "\"">> => ret[1] = <<"amount">>

\* the column of the data source a filter names, whatever the case of the
\* letters; {} when the data source has no such column
ColumnsNamed(name) ==
    { Columns[i] : i \in { j \in 1..Len(Columns) : Lower(Columns[j]) = Lower(clean_column_name(name)) } }
\* a filter that is applied to the row: its condition is not empty and the row
\* has a cell in its column
Applies(row, f) ==
    /\ Strip(f.val) # <<>>
    /\ \E c \in ColumnsNamed(f.key) : c \in DOMAIN row

\* C19: the column of a filter is looked up in the column list without regard
\* to case; a filter whose column is not found lets every row pass, and every
\* other filter of the plan is applied to every row: the rows returned are the
\* rows that satisfy each filter whose column is found.
C19_UnresolvedFilterSkipped ==
    (arg.fn = "filter" /\ ret # <<>>) =>
        ret[1] = SelectSeq(arg.rows, LAMBDA row :
                    \A i \in 1..Len(arg.filters) :
                        Applies(row, arg.filters[i]) =>
                            \A c \in ColumnsNamed(arg.filters[i].key) :
                                CellMatches(row[c], Strip(arg.filters[i].val)))

\* a plan whose first filter names no column and whose second filter, written
\* in capitals and quotes, removes one row of two
C19_Witness ==
    /\ arg.fn = "filter"
    /\ ret # <<>>
    /\ Len(arg.filters) = 2
    /\ ColumnsNamed(arg.filters[1].key) = {}
    /\ arg.filters[1].val # <<>>
    /\ arg.filters[2].key = <<"\"", "AMOUNT", "\"">>
    /\ Len(arg.rows) = 2
    /\ Len(ret[1]) = 1

\* the comparison a condition asks for: its operator and its operand
Operator(f) ==
    IF Len(f) >= 2 /\ f[1] \in {">", "<"} /\ f[2] = "=" THEN <<f[1], "=">>
    ELSE IF Len(f) >= 1 /\ f[1] \in {">", "<"} THEN <<f[1]>>
    ELSE <<>>
Operand(f) == SubSeq(f, Len(Operator(f)) + 1, Len(f))
IsNumber(s) == Len(s) = 1 /\ s[1] \in NumberPieces
Compare(op, a, b) ==
    CASE op = <<">", "=">> -> a >= b
      [] op = <<"<", "=">> -> a <= b
      [] op = <<">">> -> a > b
      [] op = <<"<">> -> a < b

\* what a filter that is applied says about a row: the numeric comparison when
\* the condition is an operator with a number and the cell is a number, the
\* other tests of the loop otherwise
Verdict(row, f) ==
    LET c == CHOOSE col \in ColumnsNamed(f.key) : TRUE
        cond == Strip(f.val)
    IN  IF Operator(cond) # <<>> /\ IsNumber(Operand(cond)) /\ IsNumber(row[c])
        THEN Compare(Operator(cond), NumOf(row[c][1]), NumOf(Operand(cond)[1]))
        ELSE CellMatches(row[c], cond)

\* C20: a condition that begins with >=, <=, > or < compares the number in the
\* cell with the number behind the operator, >= and <= being recognised before
\* > and <; the rows returned are the rows that all conditions of the plan
\* match; amount >100 over the rows 150 and 50 returns the row 150.
C20_NumericComparisonAllMatch ==
    (arg.fn = "filter" /\ ret # <<>>) =>
        /\ ret[1] = SelectSeq(arg.rows, LAMBDA row :
                        \A i \in 1..Len(arg.filters) :
                            Applies(row, arg.filters[i]) => Verdict(row, arg.filters[i]))
        /\ (/\ arg.filters = <<[key |-> <<"\"", "AMOUNT", "\"">>, val |-> <<">", "100">>]>>
            /\ arg.rows = <<Row(<<"150">>, <<"Bob">>), Row(<<"50">>, <<"al">>)>>)
                => ret[1] = <<Row(<<"150">>, <<"Bob">>)>>

\* two conditions on two rows that both match the first: the second, a <=,
\* keeps the row whose number equals its operand and removes the other
C20_Witness ==
    /\ arg.fn = "filter"
    /\ ret # <<>>
    /\ Len(arg.filters) = 2
    /\ arg.filters[1] = [key |-> <<"name">>, val |-> <<"bob">>]
    /\ arg.filters[2] = [key |-> <<"\"", "AMOUNT", "\"">>, val |-> <<"<", "=", "100">>]
    /\ arg.rows = <<Row(<<"150">>, <<"Bob">>), Row(<<"100">>, <<"Bob">>)>>
    /\ ret[1] = <<Row(<<"100">>, <<"Bob">>)>>

\* the plan a response of the requested shape was written from
Requested(text) == CHOOSE p \in RequestedPlans : Render(p) = text
OfRequestedShape(text) == \E p \in RequestedPlans : Render(p) = text

\* C16: when the response is strictly valid JSON of the requested shape, the
\* filters, the statistic and its column, the sort and the limit that are
\* executed are the ones the response holds.
C16_ValidPlanIsExecuted ==
    (arg.fn = "plan" /\ ret # <<>> /\ OfRequestedShape(arg.text)) =>
        Executed(ret[1]) = Requested(arg.text)

\* strictly valid JSON: an object whose members are scalars or objects
RECURSIVE ObjectEnd(_, _)
RECURSIVE MembersEnd(_, _)
ObjectEnd(text, i) ==
    IF i + 1 > Len(text) \/ text[i] # "{" THEN 0
    ELSE IF text[i + 1] = "}" THEN i + 1
    ELSE MembersEnd(text, i + 1)
MembersEnd(text, i) ==
    LET e == IF i > Len(text) THEN 0
             ELSE IF IsMember(text[i]) THEN i
             ELSE IF text[i] = FiltersKey THEN ObjectEnd(text, i + 1)
             ELSE 0
    IN  IF e = 0 \/ e + 1 > Len(text) THEN 0
        ELSE IF text[e + 1] = "}" THEN e + 1
        ELSE IF text[e + 1] = "," THEN MembersEnd(text, e + 2)
        ELSE 0
IsJson(text) == text # <<>> /\ ObjectEnd(text, 1) = Len(text)

\* the plan is the fallback plan: no filter, no statistic, the response as the
\* explanation
IsEmptyPlanOf(plan, text) ==
    /\ { plan[i].key : i \in 1..Len(plan) } = { <<"filters">>, <<"statistics">>, <<"explanation">> }
    /\ Get(plan, <<"filters">>, <<"?">>) = <<>>
    /\ Get(plan, <<"statistics">>, <<"?">>) = None
    /\ Get(plan, <<"explanation">>, <<"?">>) = text

NoLoadableSpan(text) ==
    \/ \A i, j \in 1..Len(text) :
            (i < j /\ text[i] = "{" /\ text[j] = "}") =>
                \E n \in (i + 1)..(j - 1) : text[n] \in {"{", "}"}
    \/ /\ FirstSpan(text) # <<>>
       /\ ~Loadable(SubSeq(text, FirstSpan(text)[1] + 1, FirstSpan(text)[2] - 1))

ParsesAsNumber(s) ==
    LET t == Strip(s)
    IN  \/ IsNumber(t)
        \/ Len(t) = 2 /\ t[1] = "-" /\ IsNumber(<<t[2]>>)
\* the operand of a condition parses: the text behind a comparison operator,
\* both ends of a range A-B, the whole condition otherwise
IsRange(f) ==
    /\ Operator(f) = <<>>
    /\ f[1] # "-"
    /\ Cardinality({ i \in 1..Len(f) : f[i] = "-" }) = 1
RangeEnds(f) ==
    LET d == CHOOSE i \in 1..Len(f) : f[i] = "-"
    IN  <<SubSeq(f, 1, d - 1), SubSeq(f, d + 1, Len(f))>>
OperandParses(f) ==
    IF Operator(f) # <<>> THEN ParsesAsNumber(Operand(f))
    ELSE IF IsRange(f) THEN ParsesAsNumber(RangeEnds(f)[1]) /\ ParsesAsNumber(RangeEnds(f)[2])
    ELSE ParsesAsNumber(f)
\* the filter string occurs in the text of the cell, whatever the case
OccursIn(f, cell) ==
    \E i \in 0..(Len(cell) - Len(f)) :
        \A n \in 1..Len(f) : LowerPiece(cell[i + n]) = LowerPiece(f[n])

\* C21: whenever the cell (a number, a text, empty) or the operand of the
\* condition is not the writing of a number, the condition holds exactly when
\* the filter string occurs in the text of the cell, case ignored.
C21_UnparsedFallsBackToSubstring ==
    (arg.fn = "condition" /\ ret # <<>>
        /\ (~ParsesAsNumber(arg.cell_value) \/ ~OperandParses(arg.filter_str))) =>
        (ret[1] <=> OccursIn(arg.filter_str, arg.cell_value))

\* the rows of the data source that match all filter conditions of the plan
Matching == FilterRows(arg.plan.filters, arg.rows, Columns)
\* the entries a data source has added, in their order
ResultsOf(src) == SelectSeq(ret[1], LAMBDA r : r.src = src)
SourcesOfCall == { <<"data_source", i>> : i \in 1..arg.n_sources }

\* C22: with statistics = count, the value reported for a data source is the
\* number of its rows that match all filter conditions, whatever sort_by and
\* limit the plan carries.
C22_CountIsMatchingRows ==
    (arg.fn = "query" /\ ret # <<>> /\ arg.plan.statistics = <<"count">>) =>
        \A src \in SourcesOfCall :
            /\ ResultsOf(src) # <<>>
            /\ ResultsOf(src)[1].value = <<[num |-> Len(Matching), den |-> 1]>>

\* the column a plan names for its statistic, when the data source has it
StatColumns == ColumnsNamed(arg.plan.statistics_column)

\* C23: with statistics sum, avg, max or min and a column that resolves, the
\* statistic is the one of the cells of the matching rows that are numbers;
\* cells that are text, empty or missing are passed over; when no number is
\* left the result holds the row count and no value.
C23_StatisticOverNumericCells ==
    (arg.fn = "query" /\ ret # <<>> /\ arg.plan.statistics \in Stats
        /\ arg.plan.statistics_column # <<>> /\ StatColumns # {}) =>
        \A src \in SourcesOfCall :
            LET numbers == NumericValues(Matching, CHOOSE c \in StatColumns : TRUE)
                r == ResultsOf(src)
            IN  /\ Len(r) = 1
                /\ IF numbers # <<>>
                   THEN r[1].value = <<StatValue(arg.plan.statistics, numbers)>>
                   ELSE r[1].value = <<>> /\ r[1].total = Len(Matching)

\* C29: every data source adds exactly one entry to the results, whatever the
\* statistics of the plan, and the citations hold one entry per data source,
\* indexed from 1 in the order of the data sources.
C29_OneResultPerSource ==
    (arg.fn = "query" /\ ret # <<>>) =>
        /\ Len(ret[1]) = arg.n_sources
        /\ \A i \in 1..Len(ret[1]) : ret[1][i].src = <<"data_source", i>>
        /\ Len(ret) = 2 =>
                /\ Len(ret[2]) = arg.n_sources
                /\ \A i \in 1..Len(ret[2]) :
                        ret[2][i].index = i /\ ret[2][i].src = <<"data_source", i>>

\* the narration call of the table request has raised: the summary of the
\* results was yielded as a chunk (search.py:689)
NarrationFailed == \E i \in 1..Len(events) : events[i] = ChunkEvent(ResultsSummary)

\* C24: when the narration call of a table request raises, before the first
\* token or after some tokens, the answer kept is the summary of the per-source
\* results alone, and the request ends with a final event that carries
\* exactly that summary.
C24_NarrationFailureFallsBack ==
    (TableRoute /\ NarrationFailed) =>
        /\ pc \in {"t_narrated", "t_citations", "t_final", "done", "closed"}
        /\ pc = "t_narrated" => answer_chunks = <<ResultsSummary>>
        /\ pc = "t_citations" => final_answer = ResultsSummary
        /\ pc \in {"t_final", "done"} =>
                /\ LastEvent.type = "final"
                /\ LastEvent.answer = ResultsSummary
        /\ pc = "closed" => consumer = "stopped"

C24_Witness ==
    /\ TableRoute /\ NarrationFailed /\ pc = "t_final"
    /\ Len(ChunkPayloads) >= 2
    /\ LastEvent = FinalEvent(ResultsSummary, citations)

\* the strict-mode wording is part of the instruction given to the model
HasStrictWording(messages) ==
    \E i \in 1..Len(messages.system) : <<messages.system[i]>> = StrictInstruction

\* C25: the synthesis instruction holds the strict-mode wording exactly when
\* rerank_k <= 3, on the hybrid route and on the vector route alike.
C25_StrictWordingIffRerankKAtMostThree ==
    (arg.fn = "prompt" /\ ret # <<>>) =>
        (HasStrictWording(ret[1]) <=> arg.rerank_k <= 3)

\* the points of one keyword as the sum 3 (title) + 2 (summary) + 1 (content
\* prefix), each field looked at on its own
FieldPoints(keyword, doc) ==
    IF Len(keyword) < 2 THEN 0
    ELSE (IF Contains(Lower(doc.title), keyword) THEN 3 ELSE 0)
       + (IF Contains(Lower(doc.summary), keyword) THEN 2 ELSE 0)
       + (IF Contains(Lower(Take(doc.content, ContentPrefixLen)), keyword) THEN 1 ELSE 0)

RECURSIVE SumFieldPoints(_, _)
SumFieldPoints(keywords, doc) ==
    IF keywords = <<>> THEN 0
    ELSE FieldPoints(Head(keywords), doc) + SumFieldPoints(Tail(keywords), doc)

\* C26: the keyword score is the sum over the keywords of length >= 2 of
\* 3 for the title, 2 for the summary and 1 for the content prefix, so a
\* keyword found in the title alone adds exactly 3.
C26_KeywordScoreIsWeightedFieldHits ==
    (arg.fn = "keyword_score" /\ ret # <<>>) =>
        ret[1] = SumFieldPoints(SplitWords(Lower(arg.query), <<>>), arg.doc)

\* C27: the snippet of a citation has at most 200 characters, the ellipsis
\* counted, and is the content itself when the content has at most 200.
C27_SnippetAtMost200 ==
    (arg.fn = "snippet" /\ ret # <<>>) =>
        /\ TextLen(ret[1]) <= SnippetLimit
        /\ TextLen(arg.content) <= SnippetLimit => ret[1] = arg.content

BgeFailures == {"import_failed", "load_failed", "predict_failed"}
\* scoring calls the current _rerank call has made
ScoringCalls == rr.llm_ok + rr.llm_failed

\* C28: the cross-encoder is tried first and its success ends _rerank with no
\* scoring call made; the language model scores chunks only after the
\* cross-encoder strategy failed (import, load on both devices, or predict).
C28_RerankStrategyOrder ==
    /\ rr.bge = "ok" =>
            /\ rr.status = "returned"
            /\ ScoringCalls = 0
            /\ llm.rerank_calls = 0
            /\ pc # "rerank_llm"
    /\ (pc = "rerank_llm" \/ ScoringCalls > 0) => rr.bge \in BgeFailures
    /\ pc = "rerank_bge" => rr.bge = "none" /\ ScoringCalls = 0 /\ llm.rerank_calls = 0
    /\ rr.status # "idle" =>
            /\ llm.rerank_calls = ScoringCalls
            /\ llm.rerank_calls > 0 => rr.bge \in BgeFailures

C28_Witness ==
    /\ rr.bge = "ok" /\ rr.status = "returned"
    /\ pc = "retrieved" /\ Len(results) = rr.top_k
    /\ llm.rerank_calls = 0
    /\ reranker = <<"CrossEncoder">>

\* the last entry of the vector list that belongs to document d
LastVector(d) == arg.vres[LastIn(arg.vres, LAMBDA r : r.doc_id = d)]

\* C30: the fused entry of a document of the vector list carries the chunk
\* and the vector score 1.0 - (rank - 1) * 0.1 of the last entry of that
\* document in the vector list, and a result without a document id is in no
\* fused entry.
C30_FusedCarriesLastOccurrence ==
    (ret # <<>> /\ arg.fn = "hybrid_search") =>
        /\ \A i \in 1..Len(Fused) :
            /\ Fused[i].doc_id # <<>>
            /\ Fused[i].doc_id \in VectorDocIds =>
                LET last == LastVector(Fused[i].doc_id) IN
                /\ Fused[i].src = last.src
                /\ Fused[i].chunk_index = last.chunk_index
                /\ Fused[i].hybrid_score =
                        vector_weight * (10 - (last.index - 1))
                        + keyword_weight * KeywordScoreOf(Fused[i].doc_id)
        /\ \A j \in 1..Len(arg.vres) :
            arg.vres[j].doc_id = <<>> =>
                \A i \in 1..Len(Fused) : Fused[i].src # arg.vres[j].src

\* a call whose vector list holds two chunks of one document and a chunk
\* without document id; the fused entry holds the later chunk
C30_Witness ==
    /\ ret # <<>> /\ arg.fn = "hybrid_search"
    /\ \E a, b, c \in 1..Len(arg.vres) :
        /\ a < b /\ arg.vres[a].doc_id = arg.vres[b].doc_id /\ arg.vres[a].doc_id # <<>>
        /\ arg.vres[c].doc_id = <<>>
        /\ \E i \in 1..Len(Fused) :
            /\ Fused[i].src = arg.vres[b].src
            /\ Fused[i].hybrid_score < vector_weight * (10 - (arg.vres[a].index - 1))

====
